---------------------------- MODULE Spec2Model ----------------------------
(***************************************************************************)
(* OpenAIService of the nutrition tracker: the copy the server runs       *)
(* (server/src/services/openai.ts) and the older copy kept in README.md    *)
(* (which alone has updateMealAnalysis / getMockUpdate).                   *)
(*                                                                         *)
(* Every public operation is an async function: it runs synchronously up   *)
(* to its single `await openai.chat.completions.create(...)`, and is       *)
(* resumed when that promise settles.  An invocation is a slot i with a    *)
(* program position pc[i]; the values it handles are JavaScript values.    *)
(* The hosting runtime serves the invocations of the slots side by side.   *)
(***************************************************************************)
EXTENDS Integers, Sequences, FiniteSets, TLC

VARIABLES
    apiKey,     \* process.env.OPENAI_API_KEY
    pc,         \* pc[i]: "idle" | "await" | "resolved" | "rejected"; "off"
                \* for a slot the run does not use
    call,       \* call[i]: the operation invoked and its arguments
    requests,   \* requests[i]: calls made to openai.chat.completions.create
    reply,      \* reply[i]: how the awaited call settled
    path,       \* path[i]: the return statement taken ("live" | "fallback")
    result,     \* result[i]: the value the returned promise resolved with
    inputs      \* inputs[i]: the caller's argument objects as they are now

vars == <<apiKey, pc, call, requests, reply, path, result, inputs>>

-----------------------------------------------------------------------------
(* JavaScript values.  Scalars are [t, n, s]; an array carries its        *)
(* elements in a, an object its own properties in o.  NaN is a value of   *)
(* type number that no comparison holds of.                               *)

Undefined == [t |-> "undefined", n |-> 0, s |-> ""]
Null == [t |-> "null", n |-> 0, s |-> ""]
NaN == [t |-> "NaN", n |-> 0, s |-> ""]
Num(k) == [t |-> "number", n |-> k, s |-> ""]
Str(x) == [t |-> "string", n |-> 0, s |-> x]
Bool(b) == [t |-> "boolean", n |-> IF b THEN 1 ELSE 0, s |-> ""]
Arr(elems) == [t |-> "array", a |-> elems]
Obj(props) == [t |-> "object", o |-> props]

\* typeof v === "number"
IsNumber(v) == v.t \in {"number", "NaN"}

\* v >= 0 as JavaScript evaluates it on a number: false of NaN
GeZero(v) == v.t = "number" /\ v.n >= 0

\* ToBoolean, as `!x`, `x || y` and `x ? a : b` apply it
Truthy(v) ==
    CASE v.t = "undefined" -> FALSE
      [] v.t = "null" -> FALSE
      [] v.t = "NaN" -> FALSE
      [] v.t = "number" -> v.n # 0
      [] v.t = "boolean" -> v.n # 0
      [] v.t = "string" -> v.s # ""
      [] OTHER -> TRUE

\* a || b
Or(a, b) == IF Truthy(a) THEN a ELSE b

\* The strings of the model that are numeric literals, with their values.
NumericStrings == {<<"12", 12>>, <<"-3", -3>>, <<"250", 250>>}

\* Number(v)
ToNumber(v) ==
    CASE v.t = "undefined" -> NaN
      [] v.t = "null" -> Num(0)
      [] v.t = "NaN" -> NaN
      [] v.t = "number" -> v
      [] v.t = "boolean" -> Num(v.n)
      [] v.t = "string" ->
            IF v.s = "" THEN Num(0)
            ELSE IF \E p \in NumericStrings : p[1] = v.s
                 THEN Num((CHOOSE p \in NumericStrings : p[1] = v.s)[2])
                 ELSE NaN
      [] v.t = "array" ->
            IF Len(v.a) = 0 THEN Num(0)
            ELSE IF Len(v.a) = 1 /\ v.a[1].t = "number" THEN v.a[1]
                 ELSE NaN
      [] OTHER -> NaN

\* Math.max(a, b) and Math.min(a, b): the arguments converted to numbers,
\* NaN if either is NaN
MathMax(a, b) ==
    LET x == ToNumber(a)
        y == ToNumber(b)
    IN IF x.t = "NaN" \/ y.t = "NaN" THEN NaN
       ELSE IF x.n >= y.n THEN x ELSE y

MathMin(a, b) ==
    LET x == ToNumber(a)
        y == ToNumber(b)
    IN IF x.t = "NaN" \/ y.t = "NaN" THEN NaN
       ELSE IF x.n <= y.n THEN x ELSE y

\* Array.isArray(v)
IsArray(v) == v.t = "array"

\* v.k : property k of an object (undefined when it has none); reading a
\* property of null or undefined throws a TypeError (see ReadThrows)
Get(v, k) ==
    IF v.t = "object" /\ k \in DOMAIN v.o THEN v.o[k] ELSE Undefined

ReadThrows(v) == v.t \in {"undefined", "null"}

-----------------------------------------------------------------------------
(* Strings.  A string the code searches (updateText) is kept as its        *)
(* characters cs beside its value s; every other string is its value.      *)

RECURSIVE Join(_)
Join(cs) == IF cs = <<>> THEN "" ELSE Head(cs) \o Join(Tail(cs))

Chars(cs) == [t |-> "string", n |-> 0, s |-> Join(cs), cs |-> cs]

\* String.prototype.toLowerCase, on the letters the model's texts use
LowerChar(c) ==
    CASE c = "M" -> "m" [] c = "O" -> "o" [] c = "R" -> "r" [] c = "E" -> "e"
      [] c = "X" -> "x" [] c = "T" -> "t" [] c = "A" -> "a" [] c = "L" -> "l"
      [] c = "S" -> "s" [] OTHER -> c

toLowerCase(cs) == [k \in 1..Len(cs) |-> LowerChar(cs[k])]

\* String.prototype.includes
includes(cs, needle) ==
    \E k \in 0..(Len(cs) - Len(needle)) :
        \A j \in 1..Len(needle) : cs[k + j] = needle[j]

more == <<"m", "o", "r", "e">>
extra == <<"e", "x", "t", "r", "a">>
additional == <<"a", "d", "d", "i", "t", "i", "o", "n", "a", "l">>
less == <<"l", "e", "s", "s">>
smaller == <<"s", "m", "a", "l", "l", "e", "r">>

-----------------------------------------------------------------------------
(* The text of a model reply, as the tokens the code can tell apart: the   *)
(* braces the extraction regex looks for, line breaks and blanks (the      *)
(* insights are split on them), prose words, the members of a JSON object  *)
(* (the text between its braces), a JSON literal holding no brace, and the *)
(* brackets of a JSON array.                                               *)

Tok(c, v) == [c |-> c, v |-> v]
LB == Tok("{", Undefined)
RB == Tok("}", Undefined)
LBK == Tok("[", Undefined)
RBK == Tok("]", Undefined)
NL == Tok("nl", Undefined)
SP == Tok("sp", Undefined)
Word(w) == Tok("word", Str(w))
Members(obj) == Tok("members", obj)
Literal(v) == Tok("literal", v)

\* JSON.stringify(v), for the values a reply may hold
RECURSIVE Stringify(_)
StringifyAll(elems) ==
    LET RECURSIVE cat(_)
        cat(k) == IF k > Len(elems) THEN <<>>
                  ELSE Stringify(elems[k]) \o cat(k + 1)
    IN cat(1)
Stringify(v) ==
    CASE v.t = "object" -> <<LB, Members(v), RB>>
      [] v.t = "array" -> <<LBK>> \o StringifyAll(v.a) \o <<RBK>>
      [] OTHER -> <<Literal(v)>>

\* content.match(/\{[\s\S]*\}/): the span from the first "{" to the last
\* "}" after it; null when there is none
HasMatch(toks) ==
    \E i, j \in 1..Len(toks) : i < j /\ toks[i] = LB /\ toks[j] = RB

Match(toks) ==
    LET i == CHOOSE i \in 1..Len(toks) :
                 toks[i] = LB /\ \A k \in 1..(i - 1) : toks[k] # LB
        j == CHOOSE j \in 1..Len(toks) :
                 toks[j] = RB /\ \A k \in (j + 1)..Len(toks) : toks[k] # RB
    IN SubSeq(toks, i, j)

\* const jsonString = jsonMatch ? jsonMatch[0] : content
jsonString(toks) == IF HasMatch(toks) THEN Match(toks) ELSE toks

\* Blanks around a JSON text are insignificant
RECURSIVE Trim(_)
Trim(toks) ==
    IF toks = <<>> THEN toks
    ELSE IF Head(toks) \in {NL, SP} THEN Trim(Tail(toks))
    ELSE IF toks[Len(toks)] \in {NL, SP} THEN Trim(SubSeq(toks, 1, Len(toks) - 1))
    ELSE toks

\* The elements of an array text, each a literal or "{" members "}";
\* <<FALSE>> when the tokens are no such list
RECURSIVE ParseElems(_)
ParseElems(toks) ==
    IF toks = <<>> THEN <<TRUE, <<>>>>
    ELSE IF Head(toks).c = "literal"
         THEN LET rest == ParseElems(Tail(toks))
              IN IF rest[1] THEN <<TRUE, <<Head(toks).v>> \o rest[2]>> ELSE <<FALSE>>
    ELSE IF Len(toks) >= 3 /\ toks[1] = LB /\ toks[2].c = "members" /\ toks[3] = RB
         THEN LET rest == ParseElems(SubSeq(toks, 4, Len(toks)))
              IN IF rest[1] THEN <<TRUE, <<toks[2].v>> \o rest[2]>> ELSE <<FALSE>>
    ELSE <<FALSE>>

\* JSON.parse(text): [ok |-> TRUE, v |-> the value], or ok = FALSE for a
\* SyntaxError
JSON_parse(text) ==
    LET toks == Trim(text)
    IN IF Len(toks) = 1 /\ toks[1].c = "literal"
       THEN [ok |-> TRUE, v |-> toks[1].v]
       ELSE IF Len(toks) = 3 /\ toks[1] = LB /\ toks[2].c = "members" /\ toks[3] = RB
       THEN [ok |-> TRUE, v |-> toks[2].v]
       ELSE IF Len(toks) >= 2 /\ toks[1] = LBK /\ toks[Len(toks)] = RBK
               /\ ParseElems(SubSeq(toks, 2, Len(toks) - 1))[1]
       THEN [ok |-> TRUE, v |-> Arr(ParseElems(SubSeq(toks, 2, Len(toks) - 1))[2])]
       ELSE [ok |-> FALSE, v |-> Undefined]

\* How the awaited completion settles: the promise rejects (network error,
\* non-2xx, quota, timeout), or fulfils with
\* response.choices[0]?.message?.content absent, or with a text
Pending == [how |-> "pending", nul |-> TRUE, toks |-> <<>>]
Rejected == [how |-> "rejected", nul |-> TRUE, toks |-> <<>>]
NoContent == [how |-> "fulfilled", nul |-> TRUE, toks |-> <<>>]
Content(toks) == [how |-> "fulfilled", nul |-> FALSE, toks |-> toks]

\* !content
ContentMissing(r) == r.nul \/ r.toks = <<>>

-----------------------------------------------------------------------------
(* Math.random() and Math.round.                                           *)

\* The values Math.random() takes in the model, each <<p, q>> for p/q in [0, 1)
RandomUnits == {<<0, 2>>, <<1, 2>>}

\* Math.floor(Math.random() * k) for the drawn unit u
FloorRandom(u, k) == (u[1] * k) \div u[2]

\* The quotient cut off, not rounded: Math.floor(p / q)
RoundDiv_floor(p, q) == p \div q

\* Math.round(p / q) for integers p >= 0 and q > 0: the nearest integer, a
\* half rounding up
RoundDiv(p, q) == (2 * p + q) \div (2 * q)

-----------------------------------------------------------------------------
(* server/src/services/openai.ts                                           *)

PLACEHOLDER_KEY == "your_openai_api_key_here"

\* The key test with its first half lost: an unset key counts as configured
KeyNotConfigured_placeholderOnly(key) == key = Str(PLACEHOLDER_KEY)

\* !process.env.OPENAI_API_KEY || process.env.OPENAI_API_KEY === 'your_openai_api_key_here'
KeyNotConfigured(key) == ~Truthy(key) \/ key = Str(PLACEHOLDER_KEY)

\* updateText?.toLowerCase().includes(word)
TextIncludes(updateText, word) ==
    updateText.t = "string" /\ includes(toLowerCase(updateText.cs), word)

\* A mock whose confidence is drawn at random like its nutrients
getMockAnalysis_randomConfidence(updateText, rnd) ==
    LET bump == TextIncludes(updateText, more) \/ TextIncludes(updateText, extra)
    IN Obj([
        name |-> Str("Mixed Meal"),
        description |-> IF Truthy(updateText)
                        THEN Str("Meal with additional info: " \o updateText.s)
                        ELSE Str("A nutritious meal"),
        calories |-> Num(350 + FloorRandom(rnd[1], 200) + (IF bump THEN 100 ELSE 0)),
        protein |-> Num(20 + FloorRandom(rnd[2], 15) + (IF bump THEN 10 ELSE 0)),
        carbs |-> Num(30 + FloorRandom(rnd[3], 20) + (IF bump THEN 15 ELSE 0)),
        fat |-> Num(12 + FloorRandom(rnd[4], 10)),
        fiber |-> Num(5 + FloorRandom(rnd[5], 5)),
        sugar |-> Num(8 + FloorRandom(rnd[6], 5)),
        sodium |-> Num(400 + FloorRandom(rnd[7], 300)),
        confidence |-> Num(75 + FloorRandom(rnd[1], 20)),
        ingredients |-> Arr(<<Str("Mixed ingredients"), Str("Vegetables"),
                              Str("Protein source")>>),
        servingSize |-> Str("1 serving"),
        cookingMethod |-> Str("Prepared"),
        healthNotes |-> Str("Balanced meal with good nutrition profile")])

\* getMockAnalysis(updateText), rnd the seven Math.random() draws in order
getMockAnalysis(updateText, rnd) ==
    LET bump == TextIncludes(updateText, more) \/ TextIncludes(updateText, extra)
    IN Obj([
        name |-> Str("Mixed Meal"),
        description |-> IF Truthy(updateText)
                        THEN Str("Meal with additional info: " \o updateText.s)
                        ELSE Str("A nutritious meal"),
        calories |-> Num(350 + FloorRandom(rnd[1], 200) + (IF bump THEN 100 ELSE 0)),
        protein |-> Num(20 + FloorRandom(rnd[2], 15) + (IF bump THEN 10 ELSE 0)),
        carbs |-> Num(30 + FloorRandom(rnd[3], 20) + (IF bump THEN 15 ELSE 0)),
        fat |-> Num(12 + FloorRandom(rnd[4], 10)),
        fiber |-> Num(5 + FloorRandom(rnd[5], 5)),
        sugar |-> Num(8 + FloorRandom(rnd[6], 5)),
        sodium |-> Num(400 + FloorRandom(rnd[7], 300)),
        confidence |-> Num(75),
        ingredients |-> Arr(<<Str("Mixed ingredients"), Str("Vegetables"),
                              Str("Protein source")>>),
        servingSize |-> Str("1 serving"),
        cookingMethod |-> Str("Prepared"),
        healthNotes |-> Str("Balanced meal with good nutrition profile")])

\* Math.max(0, Number(x) || 0)
CoerceRequired(x) == MathMax(Num(0), Or(ToNumber(x), Num(0)))

\* x ? Math.max(0, Number(x)) : undefined
CoerceOptional(x) == IF Truthy(x) THEN MathMax(Num(0), ToNumber(x)) ELSE Undefined

\* The clamp without its upper end: Math.max(0, Number(x) || 75)
CoerceConfidence_noMin(x) == MathMax(Num(0), Or(ToNumber(x), Num(75)))

\* Math.min(100, Math.max(0, Number(x) || 75))
CoerceConfidence(x) == MathMin(Num(100), MathMax(Num(0), Or(ToNumber(x), Num(75))))

\* the object literal built from the parsed reply
analysisResult(parsed) ==
    Obj([
        name |-> Or(Get(parsed, "name"), Str("Unknown Food")),
        description |-> Or(Get(parsed, "description"), Str("")),
        calories |-> CoerceRequired(Get(parsed, "calories")),
        protein |-> CoerceRequired(Get(parsed, "protein")),
        carbs |-> CoerceRequired(Get(parsed, "carbs")),
        fat |-> CoerceRequired(Get(parsed, "fat")),
        fiber |-> CoerceOptional(Get(parsed, "fiber")),
        sugar |-> CoerceOptional(Get(parsed, "sugar")),
        sodium |-> CoerceOptional(Get(parsed, "sodium")),
        confidence |-> CoerceConfidence(Get(parsed, "confidence")),
        ingredients |-> IF IsArray(Get(parsed, "ingredients"))
                        THEN Get(parsed, "ingredients") ELSE Arr(<<>>),
        servingSize |-> Or(Get(parsed, "servingSize"), Str("1 serving")),
        cookingMethod |-> Or(Get(parsed, "cookingMethod"), Str("Unknown")),
        healthNotes |-> Or(Get(parsed, "healthNotes"), Str(""))])

\* An outcome of an operation: how it settled, by which return, with what
Returned(by, v) == [pc |-> "resolved", path |-> by, result |-> v]
Thrown == [pc |-> "rejected", path |-> "none", result |-> Undefined]

\* analyzeMealImage with no outer catch: a rejected call or a missing
\* content escapes to the caller
analyzeMealImage_settled_uncaught(updateText, r, rnd) ==
    IF r.how = "rejected" \/ ContentMissing(r)
    THEN Thrown
    ELSE LET parsed == JSON_parse(jsonString(r.toks))
         IN IF ~parsed.ok \/ ReadThrows(parsed.v)
            THEN Returned("fallback", getMockAnalysis(updateText, rnd))
            ELSE Returned("live", analysisResult(parsed.v))

\* analyzeMealImage after the await: the inner try (parse and coerce) with
\* its catch, inside the outer try with its catch
analyzeMealImage_settled(updateText, r, rnd) ==
    IF r.how = "rejected" \/ ContentMissing(r)
    THEN Returned("fallback", getMockAnalysis(updateText, rnd))
    ELSE LET parsed == JSON_parse(jsonString(r.toks))
         IN IF ~parsed.ok \/ ReadThrows(parsed.v)
            THEN Returned("fallback", getMockAnalysis(updateText, rnd))
            ELSE Returned("live", analysisResult(parsed.v))

\* The tests off by one: > where the code has >=, the dinner and the
\* evening snack never pushed
generateMealTimings_offByOne(mealsPerDay, snacksPerDay) ==
    (IF mealsPerDay > 1 THEN <<"BREAKFAST">> ELSE <<>>)
    \o (IF mealsPerDay > 2 THEN <<"LUNCH">> ELSE <<>>)
    \o (IF mealsPerDay > 3 THEN <<"DINNER">> ELSE <<>>)
    \o (IF snacksPerDay > 1 THEN <<"MORNING_SNACK">> ELSE <<>>)
    \o (IF snacksPerDay > 2 THEN <<"AFTERNOON_SNACK">> ELSE <<>>)
    \o (IF snacksPerDay > 3 THEN <<"EVENING_SNACK">> ELSE <<>>)

\* generateMealTimings(mealsPerDay, snacksPerDay)
generateMealTimings(mealsPerDay, snacksPerDay) ==
    (IF mealsPerDay >= 1 THEN <<"BREAKFAST">> ELSE <<>>)
    \o (IF mealsPerDay >= 2 THEN <<"LUNCH">> ELSE <<>>)
    \o (IF mealsPerDay >= 3 THEN <<"DINNER">> ELSE <<>>)
    \o (IF snacksPerDay >= 1 THEN <<"MORNING_SNACK">> ELSE <<>>)
    \o (IF snacksPerDay >= 2 THEN <<"AFTERNOON_SNACK">> ELSE <<>>)
    \o (IF snacksPerDay >= 3 THEN <<"EVENING_SNACK">> ELSE <<>>)

days == <<"Sunday", "Monday", "Tuesday", "Wednesday", "Thursday", "Friday",
          "Saturday">>

\* timing.toLowerCase().replace("_", " ")
TimingWords(timing) ==
    CASE timing = "BREAKFAST" -> "breakfast"
      [] timing = "LUNCH" -> "lunch"
      [] timing = "DINNER" -> "dinner"
      [] timing = "MORNING_SNACK" -> "morning snack"
      [] timing = "AFTERNOON_SNACK" -> "afternoon snack"
      [] timing = "EVENING_SNACK" -> "evening snack"

\* timing.charAt(0) + timing.slice(1).toLowerCase().replace("_", " ")
TimingTitle(timing) ==
    CASE timing = "BREAKFAST" -> "Breakfast"
      [] timing = "LUNCH" -> "Lunch"
      [] timing = "DINNER" -> "Dinner"
      [] timing = "MORNING_SNACK" -> "Morning snack"
      [] timing = "AFTERNOON_SNACK" -> "Afternoon snack"
      [] timing = "EVENING_SNACK" -> "Evening snack"

\* One meal of the fallback plan: the body of mealTimings.map, for day
\* number index (from 0)
FallbackMeal(userProfile, timing, index) ==
    LET perDay == userProfile.meals_per_day + userProfile.snacks_per_day
    IN Obj([
        name |-> Str(TimingTitle(timing) \o " " \o ToString(index + 1)),
        description |-> Str("A nutritious " \o TimingWords(timing) \o " meal"),
        meal_timing |-> Str(timing),
        dietary_category |-> Str("BALANCED"),
        prep_time_minutes |-> Num(15),
        difficulty_level |-> Num(1),
        calories |-> Num(RoundDiv(userProfile.target_calories_daily, perDay)),
        protein_g |-> Num(RoundDiv(userProfile.target_protein_daily, perDay)),
        carbs_g |-> Num(RoundDiv(userProfile.target_carbs_daily, perDay)),
        fats_g |-> Num(RoundDiv(userProfile.target_fats_daily, perDay)),
        fiber_g |-> Num(5),
        sugar_g |-> Num(8),
        sodium_mg |-> Num(400),
        ingredients |-> Arr(<<Obj([name |-> Str("Mixed ingredients"),
                                   quantity |-> Num(100), unit |-> Str("g"),
                                   category |-> Str("Mixed")])>>),
        instructions |-> Arr(<<Obj([step |-> Num(1),
            text |-> Str("Prepare according to your preferences")])>>),
        allergens |-> Arr(<<>>),
        image_url |-> Str("https://images.pexels.com/photos/1640777/pexels-photo-1640777.jpeg"),
        portion_multiplier |-> Num(1),
        is_optional |-> Bool(FALSE)])

\* generateFallbackMealPlan(userProfile)
generateFallbackMealPlan(userProfile) ==
    LET mealTimings == generateMealTimings(userProfile.meals_per_day,
                                           userProfile.snacks_per_day)
        weeklyPlan == [d \in 1..Len(days) |->
            Obj([day |-> Str(days[d]),
                 day_index |-> Num(d - 1),
                 meals |-> Arr([m \in 1..Len(mealTimings) |->
                              FallbackMeal(userProfile, mealTimings[m], d - 1)])])]
    IN Obj([
        weekly_plan |-> Arr(weeklyPlan),
        weekly_nutrition_summary |-> Obj([
            avg_daily_calories |-> Num(userProfile.target_calories_daily),
            avg_daily_protein |-> Num(userProfile.target_protein_daily),
            avg_daily_carbs |-> Num(userProfile.target_carbs_daily),
            avg_daily_fats |-> Num(userProfile.target_fats_daily),
            goal_adherence_percentage |-> Num(80)]),
        shopping_tips |-> Arr(<<
            Str("Plan your shopping list based on the weekly meals"),
            Str("Buy seasonal produce for better prices")>>),
        meal_prep_suggestions |-> Arr(<<
            Str("Prepare ingredients in advance"),
            Str("Cook proteins in bulk")>>)])

\* list.map((a) => a.name || a) throws a TypeError on a null or undefined
\* element
MapNameThrows(list) == \E k \in 1..Len(list) : ReadThrows(list[k])

\* building generateMealPlan's systemPrompt throws
MealPlanPromptThrows(userProfile) ==
    MapNameThrows(userProfile.avoided_foods) \/ MapNameThrows(userProfile.allergies)

\* !mealPlan.weekly_plan || !Array.isArray(mealPlan.weekly_plan)
InvalidMealPlanStructure(mealPlan) ==
    ~Truthy(Get(mealPlan, "weekly_plan")) \/ ~IsArray(Get(mealPlan, "weekly_plan"))

\* generateMealPlan after the await
generateMealPlan_settled(userProfile, r) ==
    IF r.how = "rejected" \/ ContentMissing(r)
    THEN Returned("fallback", generateFallbackMealPlan(userProfile))
    ELSE LET mealPlan == JSON_parse(jsonString(r.toks))
         IN IF ~mealPlan.ok \/ ReadThrows(mealPlan.v)
               \/ InvalidMealPlanStructure(mealPlan.v)
            THEN Returned("fallback", generateFallbackMealPlan(userProfile))
            ELSE Returned("live", mealPlan.v)

\* The clone with no defaults: a macro the current meal has not got stays unset
generateFallbackReplacementMeal_noDefaults(request) ==
    Obj([
        name |-> Str("Alternative " \o request.current_meal.name),
        description |-> Str("A replacement meal similar to "
                            \o request.current_meal.name),
        meal_timing |-> Str(request.current_meal.meal_timing),
        dietary_category |-> Str(request.current_meal.dietary_category),
        prep_time_minutes |-> Num(20),
        difficulty_level |-> Num(2),
        calories |-> request.current_meal.calories,
        protein_g |-> request.current_meal.protein_g,
        carbs_g |-> request.current_meal.carbs_g,
        fats_g |-> request.current_meal.fats_g,
        fiber_g |-> Num(8),
        sugar_g |-> Num(5),
        sodium_mg |-> Num(600),
        ingredients |-> Arr(<<Obj([name |-> Str("Alternative ingredients"),
                                   quantity |-> Num(100), unit |-> Str("g"),
                                   category |-> Str("Mixed")])>>),
        instructions |-> Arr(<<Obj([step |-> Num(1),
            text |-> Str("Prepare according to your dietary preferences")])>>),
        allergens |-> Arr(<<>>),
        image_url |-> Str("https://images.pexels.com/photos/1640777/pexels-photo-1640777.jpeg"),
        replacement_reason |->
            Str("Generated as a safe alternative when AI generation fails")])

\* generateFallbackReplacementMeal(request)
generateFallbackReplacementMeal(request) ==
    Obj([
        name |-> Str("Alternative " \o request.current_meal.name),
        description |-> Str("A replacement meal similar to "
                            \o request.current_meal.name),
        meal_timing |-> Str(request.current_meal.meal_timing),
        dietary_category |-> Str(request.current_meal.dietary_category),
        prep_time_minutes |-> Num(20),
        difficulty_level |-> Num(2),
        calories |-> Or(request.current_meal.calories, Num(400)),
        protein_g |-> Or(request.current_meal.protein_g, Num(25)),
        carbs_g |-> Or(request.current_meal.carbs_g, Num(35)),
        fats_g |-> Or(request.current_meal.fats_g, Num(15)),
        fiber_g |-> Num(8),
        sugar_g |-> Num(5),
        sodium_mg |-> Num(600),
        ingredients |-> Arr(<<Obj([name |-> Str("Alternative ingredients"),
                                   quantity |-> Num(100), unit |-> Str("g"),
                                   category |-> Str("Mixed")])>>),
        instructions |-> Arr(<<Obj([step |-> Num(1),
            text |-> Str("Prepare according to your dietary preferences")])>>),
        allergens |-> Arr(<<>>),
        image_url |-> Str("https://images.pexels.com/photos/1640777/pexels-photo-1640777.jpeg"),
        replacement_reason |->
            Str("Generated as a safe alternative when AI generation fails")])

\* building generateReplacementMeal's systemPrompt throws
ReplacementPromptThrows(request) == MapNameThrows(request.user_preferences.allergies)

\* generateReplacementMeal after the await: whatever parses is returned
generateReplacementMeal_settled(request, r) ==
    IF r.how = "rejected" \/ ContentMissing(r)
    THEN Returned("fallback", generateFallbackReplacementMeal(request))
    ELSE LET replacementMeal == JSON_parse(jsonString(r.toks))
         IN IF ~replacementMeal.ok
            THEN Returned("fallback", generateFallbackReplacementMeal(request))
            ELSE Returned("live", replacementMeal.v)

\* The text of a token, as it stands in a line of the reply
TokText(tok) ==
    CASE tok.c = "word" -> tok.v.s
      [] tok.c = "sp" -> " "
      [] tok.c \in {"members", "literal"} -> ToString(tok.v)
      [] OTHER -> tok.c

RECURSIVE LineText(_)
LineText(toks) == IF toks = <<>> THEN "" ELSE TokText(Head(toks)) \o LineText(Tail(toks))

\* content.split('\n')
RECURSIVE split(_)
split(toks) ==
    IF \E k \in 1..Len(toks) : toks[k] = NL
    THEN LET k == CHOOSE k \in 1..Len(toks) :
                      toks[k] = NL /\ \A j \in 1..(k - 1) : toks[j] # NL
         IN <<SubSeq(toks, 1, k - 1)>> \o split(SubSeq(toks, k + 1, Len(toks)))
    ELSE <<toks>>

\* line.trim() is a non-empty string
NotBlank(line) == \E k \in 1..Len(line) : line[k] # SP

\* .filter(line => line.trim())
RECURSIVE filterLines(_)
filterLines(lines) ==
    IF lines = <<>> THEN <<>>
    ELSE (IF NotBlank(Head(lines)) THEN <<Head(lines)>> ELSE <<>>)
         \o filterLines(Tail(lines))

\* .slice(0, 3)
slice3(lines) == SubSeq(lines, 1, IF Len(lines) < 3 THEN Len(lines) ELSE 3)

\* generateNutritionInsights after the await
generateNutritionInsights_settled(r) ==
    IF r.how = "rejected" \/ ContentMissing(r)
    THEN Returned("fallback", Arr(<<>>))
    ELSE LET lines == slice3(filterLines(split(r.toks)))
         IN Returned("live", Arr([k \in 1..Len(lines) |-> Str(LineText(lines[k]))]))

-----------------------------------------------------------------------------
(* README.md: the older copy of the service.  generateMealTimings,         *)
(* generateFallbackMealPlan and generateFallbackReplacementMeal are the    *)
(* same text in both copies.                                               *)

\* !process.env.OPENAI_API_KEY
README_KeyNotConfigured(key) == ~Truthy(key)

\* The scaling with the fraction cut off: Math.floor(x * 1.3)
RoundTimes13_floor(x) ==
    LET k == ToNumber(x) IN IF k.t = "NaN" THEN NaN ELSE Num((13 * k.n) \div 10)

\* Math.round(x * 1.3)
RoundTimes13(x) ==
    LET k == ToNumber(x) IN IF k.t = "NaN" THEN NaN ELSE Num(RoundDiv(13 * k.n, 10))

\* The reduction with its factor lost: the value as it is
RoundTimes07_unscaled(x) == ToNumber(x)

\* The integers up to 400 whose product with the double 0.7 falls just
\* below a half that the exact product reaches
BelowHalf07 == {45, 85, 165, 175, 325, 335, 345, 355, 365}

\* Math.round(x * 0.7)
RoundTimes07(x) ==
    LET k == ToNumber(x)
    IN IF k.t = "NaN" THEN NaN
       ELSE IF k.n \in BelowHalf07 THEN Num(RoundDiv(7 * k.n, 10) - 1)
       ELSE Num(RoundDiv(7 * k.n, 10))

mockMeals == <<
    [name |-> Str("Grilled Chicken Salad"),
     description |-> Str("Fresh mixed greens with grilled chicken breast, cherry tomatoes, and olive oil dressing"),
     calories |-> Num(350), protein |-> Num(35), carbs |-> Num(12), fat |-> Num(18),
     fiber |-> Num(6), sugar |-> Num(8), sodium |-> Num(450),
     ingredients |-> Arr(<<Str("chicken breast"), Str("mixed greens"),
                           Str("cherry tomatoes"), Str("olive oil"), Str("lemon")>>),
     cookingMethod |-> Str("Grilled"),
     healthNotes |-> Str("High protein, low carb meal with healthy fats")],
    [name |-> Str("Pasta with Marinara"),
     description |-> Str("Whole wheat pasta with homemade marinara sauce and fresh basil"),
     calories |-> Num(420), protein |-> Num(15), carbs |-> Num(65), fat |-> Num(8),
     fiber |-> Num(8), sugar |-> Num(12), sodium |-> Num(680),
     ingredients |-> Arr(<<Str("whole wheat pasta"), Str("tomatoes"), Str("garlic"),
                           Str("basil"), Str("olive oil")>>),
     cookingMethod |-> Str("Boiled and simmered"),
     healthNotes |-> Str("Good source of complex carbohydrates and fiber")],
    [name |-> Str("Avocado Toast"),
     description |-> Str("Whole grain bread topped with mashed avocado, tomato, and a sprinkle of salt"),
     calories |-> Num(280), protein |-> Num(8), carbs |-> Num(25), fat |-> Num(18),
     fiber |-> Num(10), sugar |-> Num(3), sodium |-> Num(320),
     ingredients |-> Arr(<<Str("whole grain bread"), Str("avocado"), Str("tomato"),
                           Str("salt"), Str("pepper")>>),
     cookingMethod |-> Str("Toasted"),
     healthNotes |-> Str("Rich in healthy monounsaturated fats and fiber")]>>

\* README getMockAnalysis(updateText), u the Math.random() draw
README_getMockAnalysis(updateText, u) ==
    LET randomMeal == mockMeals[FloorRandom(u, Len(mockMeals)) + 1]
        large == /\ Truthy(updateText)
                 /\ \/ TextIncludes(updateText, more)
                    \/ TextIncludes(updateText, extra)
                    \/ TextIncludes(updateText, additional)
        adjusted == IF large
                    THEN [randomMeal EXCEPT
                            !.calories = RoundTimes13(@),
                            !.protein = RoundTimes13(@),
                            !.carbs = RoundTimes13(@),
                            !.fat = RoundTimes13(@),
                            !.name = Str(@.s \o " (Large Portion)")]
                    ELSE randomMeal
    IN Obj([k \in DOMAIN adjusted \cup {"confidence", "servingSize"} |->
            CASE k = "confidence" -> Num(85)
              [] k = "servingSize" -> Str("1 serving")
              [] OTHER -> adjusted[k]])

\* README analyzeMealImage after the await (the same text as the server's,
\* with the README's getMockAnalysis)
README_analyzeMealImage_settled(updateText, r, u) ==
    IF r.how = "rejected" \/ ContentMissing(r)
    THEN Returned("fallback", README_getMockAnalysis(updateText, u))
    ELSE LET parsed == JSON_parse(jsonString(r.toks))
         IN IF ~parsed.ok \/ ReadThrows(parsed.v)
            THEN Returned("fallback", README_getMockAnalysis(updateText, u))
            ELSE Returned("live", analysisResult(parsed.v))

\* x + " ..." : the string a value becomes when a string is appended to it
AsString(v) ==
    CASE v.t = "string" -> v.s
      [] v.t = "undefined" -> "undefined"
      [] v.t = "null" -> "null"
      [] OTHER -> ToString(v)

\* The two tests in the other order: the reducer asked first, the
\* intensifier in the else-if
getMockUpdate_reducerFirst(originalAnalysis, updateText) ==
    LET updated == originalAnalysis.o
        lowerUpdate == toLowerCase(updateText.cs)
        Put(rec, k, v) == [j \in DOMAIN rec \cup {k} |-> IF j = k THEN v ELSE rec[j]]
        Scaled(rec, Round(_)) ==
            Put(Put(Put(Put(rec, "calories", Round(Get(Obj(rec), "calories"))),
                        "protein", Round(Get(Obj(rec), "protein"))),
                    "carbs", Round(Get(Obj(rec), "carbs"))),
                "fat", Round(Get(Obj(rec), "fat")))
        Named(rec, suffix) ==
            Put(rec, "name", Str(AsString(Get(Obj(rec), "name")) \o suffix))
        Described(rec, suffix) ==
            Put(rec, "description",
                Str(AsString(Get(Obj(rec), "description")) \o suffix))
    IN IF includes(lowerUpdate, less) \/ includes(lowerUpdate, smaller)
       THEN Obj(Named(Scaled(updated, RoundTimes07), " (Smaller Portion)"))
       ELSE IF includes(lowerUpdate, more) \/ includes(lowerUpdate, extra)
               \/ includes(lowerUpdate, additional)
       THEN Obj(Described(Named(Scaled(updated, RoundTimes13), " (Updated)"),
                          " - Updated with: " \o updateText.s))
       ELSE Obj(Described(Named(updated, " (Updated)"),
                          " - Additional info: " \o updateText.s))

\* The result built from the fields the function writes, with no spread of
\* the original: const updated = { name, description, calories, ... }
getMockUpdate_noSpread(originalAnalysis, updateText) ==
    LET written == {"name", "description", "calories", "protein", "carbs", "fat"}
        updated == [k \in DOMAIN originalAnalysis.o \cap written |-> originalAnalysis.o[k]]
        lowerUpdate == toLowerCase(updateText.cs)
        Put(rec, k, v) == [j \in DOMAIN rec \cup {k} |-> IF j = k THEN v ELSE rec[j]]
        Scaled(rec, Round(_)) ==
            Put(Put(Put(Put(rec, "calories", Round(Get(Obj(rec), "calories"))),
                        "protein", Round(Get(Obj(rec), "protein"))),
                    "carbs", Round(Get(Obj(rec), "carbs"))),
                "fat", Round(Get(Obj(rec), "fat")))
        Named(rec, suffix) ==
            Put(rec, "name", Str(AsString(Get(Obj(rec), "name")) \o suffix))
        Described(rec, suffix) ==
            Put(rec, "description",
                Str(AsString(Get(Obj(rec), "description")) \o suffix))
    IN IF includes(lowerUpdate, more) \/ includes(lowerUpdate, extra)
          \/ includes(lowerUpdate, additional)
       THEN Obj(Described(Named(Scaled(updated, RoundTimes13), " (Updated)"),
                          " - Updated with: " \o updateText.s))
       ELSE IF includes(lowerUpdate, less) \/ includes(lowerUpdate, smaller)
       THEN Obj(Named(Scaled(updated, RoundTimes07), " (Smaller Portion)"))
       ELSE Obj(Described(Named(updated, " (Updated)"),
                          " - Additional info: " \o updateText.s))

\* getMockUpdate(originalAnalysis, updateText)
getMockUpdate(originalAnalysis, updateText) ==
    LET updated == originalAnalysis.o
        lowerUpdate == toLowerCase(updateText.cs)
        Put(rec, k, v) == [j \in DOMAIN rec \cup {k} |-> IF j = k THEN v ELSE rec[j]]
        Scaled(rec, Round(_)) ==
            Put(Put(Put(Put(rec, "calories", Round(Get(Obj(rec), "calories"))),
                        "protein", Round(Get(Obj(rec), "protein"))),
                    "carbs", Round(Get(Obj(rec), "carbs"))),
                "fat", Round(Get(Obj(rec), "fat")))
        Named(rec, suffix) ==
            Put(rec, "name", Str(AsString(Get(Obj(rec), "name")) \o suffix))
        Described(rec, suffix) ==
            Put(rec, "description",
                Str(AsString(Get(Obj(rec), "description")) \o suffix))
    IN IF includes(lowerUpdate, more) \/ includes(lowerUpdate, extra)
          \/ includes(lowerUpdate, additional)
       THEN Obj(Described(Named(Scaled(updated, RoundTimes13), " (Updated)"),
                          " - Updated with: " \o updateText.s))
       ELSE IF includes(lowerUpdate, less) \/ includes(lowerUpdate, smaller)
       THEN Obj(Named(Scaled(updated, RoundTimes07), " (Smaller Portion)"))
       ELSE Obj(Described(Named(updated, " (Updated)"),
                          " - Additional info: " \o updateText.s))

\* Math.max(0, Number(x) || orig)
CarryRequired(x, orig) == MathMax(Num(0), Or(ToNumber(x), orig))

\* x ? Math.max(0, Number(x)) : orig
CarryOptional(x, orig) == IF Truthy(x) THEN MathMax(Num(0), ToNumber(x)) ELSE orig

\* Math.min(100, Math.max(0, Number(x) || orig))
CarryConfidence(x, orig) == MathMin(Num(100), MathMax(Num(0), Or(ToNumber(x), orig)))

\* the updatedResult object literal
updatedResult(parsed, originalAnalysis) ==
    LET P(k) == Get(parsed, k)
        O(k) == Get(originalAnalysis, k)
    IN Obj([
        name |-> Or(P("name"), O("name")),
        description |-> Or(P("description"), O("description")),
        calories |-> CarryRequired(P("calories"), O("calories")),
        protein |-> CarryRequired(P("protein"), O("protein")),
        carbs |-> CarryRequired(P("carbs"), O("carbs")),
        fat |-> CarryRequired(P("fat"), O("fat")),
        fiber |-> CarryOptional(P("fiber"), O("fiber")),
        sugar |-> CarryOptional(P("sugar"), O("sugar")),
        sodium |-> CarryOptional(P("sodium"), O("sodium")),
        confidence |-> CarryConfidence(P("confidence"), O("confidence")),
        ingredients |-> IF IsArray(P("ingredients")) THEN P("ingredients")
                        ELSE O("ingredients"),
        servingSize |-> Or(P("servingSize"), O("servingSize")),
        cookingMethod |-> Or(P("cookingMethod"), O("cookingMethod")),
        healthNotes |-> Or(P("healthNotes"), O("healthNotes"))])

\* updateMealAnalysis after the await
updateMealAnalysis_settled(originalAnalysis, updateText, r) ==
    IF r.how = "rejected" \/ ContentMissing(r)
    THEN Returned("fallback", getMockUpdate(originalAnalysis, updateText))
    ELSE LET parsed == JSON_parse(jsonString(r.toks))
         IN IF ~parsed.ok \/ ReadThrows(parsed.v)
            THEN Returned("fallback", getMockUpdate(originalAnalysis, updateText))
            ELSE Returned("live", updatedResult(parsed.v, originalAnalysis))

\* mealPlan.weekly_plan.length !== 7
NotSevenDays(mealPlan) == Len(Get(mealPlan, "weekly_plan").a) # 7

\* README generateMealPlan after the await
README_generateMealPlan_settled(userProfile, r) ==
    IF r.how = "rejected" \/ ContentMissing(r)
    THEN Returned("fallback", generateFallbackMealPlan(userProfile))
    ELSE LET mealPlan == JSON_parse(jsonString(r.toks))
         IN IF ~mealPlan.ok \/ ReadThrows(mealPlan.v)
               \/ InvalidMealPlanStructure(mealPlan.v)
               \/ NotSevenDays(mealPlan.v)
            THEN Returned("fallback", generateFallbackMealPlan(userProfile))
            ELSE Returned("live", mealPlan.v)

\* !replacementMeal.name || !replacementMeal.meal_timing
MissingRequiredFields(replacementMeal) ==
    ~Truthy(Get(replacementMeal, "name")) \/ ~Truthy(Get(replacementMeal, "meal_timing"))

\* README generateReplacementMeal after the await
README_generateReplacementMeal_settled(request, r) ==
    IF r.how = "rejected" \/ ContentMissing(r)
    THEN Returned("fallback", generateFallbackReplacementMeal(request))
    ELSE LET replacementMeal == JSON_parse(jsonString(r.toks))
         IN IF ~replacementMeal.ok \/ ReadThrows(replacementMeal.v)
               \/ MissingRequiredFields(replacementMeal.v)
            THEN Returned("fallback", generateFallbackReplacementMeal(request))
            ELSE Returned("live", replacementMeal.v)

\* README generateNutritionInsights with the Array.isArray test lost:
\* whatever parses is returned
README_generateNutritionInsights_settled_anyValue(r) ==
    IF r.how = "rejected" \/ ContentMissing(r)
    THEN Returned("fallback", Arr(<<>>))
    ELSE LET insights == JSON_parse(r.toks)
         IN IF ~insights.ok THEN Returned("fallback", Arr(<<>>))
            ELSE Returned("live", insights.v)

\* README generateNutritionInsights after the await
README_generateNutritionInsights_settled(r) ==
    IF r.how = "rejected" \/ ContentMissing(r)
    THEN Returned("fallback", Arr(<<>>))
    ELSE LET insights == JSON_parse(r.toks)
         IN IF ~insights.ok THEN Returned("fallback", Arr(<<>>))
            ELSE IF IsArray(insights.v) THEN Returned("live", insights.v)
            ELSE Returned("fallback", Arr(<<>>))

-----------------------------------------------------------------------------
(* The inputs and the replies the model is run on.  One invocation at a    *)
(* time (Spec) takes them from the wide sets; two invocations in flight    *)
(* together (SpecPair) take them from the narrow ones.                     *)

Slots == {1, 2}

\* the slots in use
slots == {i \in Slots : pc[i] # "off"}

Wide == Cardinality(slots) = 1

\* process.env.OPENAI_API_KEY: unset, empty, the placeholder, a real key
Keys ==
    IF Wide THEN {Undefined, Str(""), Str(PLACEHOLDER_KEY), Str("sk-live")}
    ELSE {Undefined, Str("sk-live")}

\* updateText of analyzeMealImage (optional) and of updateMealAnalysis
UpdateStrings ==
    IF Wide
    THEN {Chars(<<"s", "a", "l", "t">>), Chars(more), Chars(<<"M", "O", "R", "E">>),
          Chars(<<"s">> \o more \o <<"s">>), Chars(extra), Chars(additional),
          Chars(less), Chars(smaller), Chars(less \o more), Chars(<<>>)}
    ELSE {Chars(more), Chars(<<"s", "a", "l", "t">>)}

UpdateTexts == IF Wide THEN UpdateStrings \cup {Undefined} ELSE {Chars(more), Undefined}

\* the largest meals_per_day and snacks_per_day of a profile
MaxMeals == 4
MaxSnacks == 4

\* the daily targets of a profile: calories, protein, carbs, fats
Targets == IF Wide THEN {<<2000, 150, 250, 67>>, <<0, 0, 0, 0>>, <<1850, 95, 201, 70>>}
           ELSE {<<2000, 150, 250, 67>>}

Profile(m, s, tg, al) ==
    [meals_per_day |-> m, snacks_per_day |-> s,
     target_calories_daily |-> tg[1], target_protein_daily |-> tg[2],
     target_carbs_daily |-> tg[3], target_fats_daily |-> tg[4],
     excluded_ingredients |-> <<>>, avoided_foods |-> <<>>, allergies |-> al]

Profiles ==
    IF Wide
    THEN {Profile(m, s, tg, al) : m \in 0..MaxMeals, s \in 0..MaxSnacks,
                                  tg \in Targets, al \in {<<>>, <<Null>>}}
    ELSE {Profile(3, 1, tg, <<>>) : tg \in Targets}
         \cup {Profile(1, 0, tg, <<>>) : tg \in Targets}

\* the macros of a current meal: unset, zero, set
MealMacros == IF Wide THEN {Undefined, Num(0), Num(520)} ELSE {Undefined}

Request(cal, other, al) ==
    [current_meal |-> [name |-> "Lentil Soup", meal_timing |-> "LUNCH",
                       dietary_category |-> "VEGAN", calories |-> cal,
                       protein_g |-> other, carbs_g |-> other, fats_g |-> other],
     user_preferences |-> [dietary_preferences |-> <<>>,
                           excluded_ingredients |-> <<>>, allergies |-> al]]

Requests ==
    {Request(cal, other, al) : cal \in MealMacros, other \in MealMacros,
                               al \in IF Wide THEN {<<>>, <<Null>>} ELSE {<<>>}}

\* the estimates updateMealAnalysis is given: a full one, and one with no
\* optional field but with fields outside the prompted schema
Originals ==
    {Obj([name |-> Str("Chicken Bowl"), description |-> Str("Rice and chicken"),
          calories |-> Num(500), protein |-> Num(45), carbs |-> Num(60),
          fat |-> Num(20), fiber |-> Num(6), sugar |-> Num(4), sodium |-> Num(700),
          confidence |-> Num(80), ingredients |-> Arr(<<Str("rice"), Str("chicken")>>),
          servingSize |-> Str("1 bowl"), cookingMethod |-> Str("Grilled"),
          healthNotes |-> Str("High protein")])}
    \cup (IF Wide
          THEN {Obj([name |-> Str("Toast"), calories |-> Num(85), protein |-> Num(3),
                     carbs |-> Num(15), fat |-> Num(0), confidence |-> Num(100),
                     items |-> Arr(<<Str("bread")>>), healthScore |-> Num(7),
                     recommendations |-> Arr(<<Str("add protein")>>)])}
          ELSE {})

\* stats of generateNutritionInsights (any): an object, or null
StatsValues == IF Wide THEN {Obj([averageCaloriesDaily |-> Num(1900)]), Null}
               ELSE {Obj([averageCaloriesDaily |-> Num(1900)])}

\* An object holding the given properties, those given as "absent" left out
Absent == [t |-> "absent", n |-> 0, s |-> ""]
ObjOf(props) == Obj([k \in {j \in DOMAIN props : props[j] # Absent} |-> props[k]])

\* Text around a JSON reply: none, prose, prose holding braces
Prefixes == {<<>>, <<Word("Here you go:"), NL>>, <<Word("Using"), LB, Word("x"), RB, SP>>}
Suffixes == {<<>>, <<NL, Word("Enjoy!")>>, <<SP, Word("see"), LB, Word("note"), RB>>}

Wrapped(docs) ==
    {Content(pre \o Stringify(d) \o post) : pre \in Prefixes, post \in Suffixes, d \in docs}

\* Replies that hold no JSON object at all, and the two that hold none of
\* the expected shape
Failures == {Rejected, NoContent, Content(<<>>)}
Junk ==
    IF Wide
    THEN {Content(<<Word("I cannot help with that.")>>),
          Content(<<LB, Word("calories"), SP, Word("lots"), RB>>),
          Content(<<Literal(Null)>>), Content(<<Literal(Num(42))>>)}
    ELSE {Content(<<Word("I cannot help with that.")>>)}

\* The values a model may put in a field of an estimate
StringValues == IF Wide THEN {Absent, Str(""), Str("Pizza")} ELSE {Str("Pizza")}
NumberValues ==
    IF Wide THEN {Absent, Null, Num(-5), Num(0), Num(250), Str("abc"), Str("12"), Obj(<<>>)}
    ELSE {Num(250)}
ConfidenceValues ==
    IF Wide THEN {Absent, Num(-1), Num(0), Num(50), Num(150), Str("abc")} ELSE {Num(50)}
ListValues == IF Wide THEN {Absent, Arr(<<Str("dough"), Str("cheese")>>)}
              ELSE {Arr(<<Str("dough"), Str("cheese")>>)}

EstimateDoc(sv, nv, cv, lv) ==
    ObjOf([name |-> sv, description |-> sv, calories |-> nv, protein |-> nv,
           carbs |-> nv, fat |-> nv, fiber |-> nv, sugar |-> nv, sodium |-> nv,
           confidence |-> cv, ingredients |-> lv, servingSize |-> sv,
           cookingMethod |-> sv, healthNotes |-> sv])

EstimateDocs ==
    {EstimateDoc(sv, nv, cv, lv) : sv \in StringValues, nv \in NumberValues,
                                   cv \in ConfidenceValues, lv \in ListValues}

EstimateReplies ==
    {Content(Stringify(d)) : d \in EstimateDocs}
    \cup (IF Wide
          THEN Failures \cup Junk
               \cup Wrapped({EstimateDoc(Str("Pizza"), Num(250), Num(50), Absent)})
          ELSE {Rejected})

\* A day of a live plan: its meals carry the timings asked for
LiveMeal(timing) ==
    Obj([name |-> Str("Meal Name"), meal_timing |-> Str(timing),
         calories |-> Num(400), protein_g |-> Num(20), carbs_g |-> Num(45),
         fats_g |-> Num(15)])

LiveDay(index, timings) ==
    Obj([day |-> Str("Day"), day_index |-> Num(index),
         meals |-> Arr([m \in 1..Len(timings) |-> LiveMeal(timings[m])])])

\* a weekly_plan of n days, numbered from 0 upwards or all 0
LiveWeek(n, ordered, timings) ==
    Arr([d \in 1..n |-> LiveDay(IF ordered THEN d - 1 ELSE 0, timings)])

PlanDocs ==
    IF Wide
    THEN {Obj([weekly_plan |-> LiveWeek(n, ordered, generateMealTimings(m, 1))]) :
              n \in {0, 6, 7, 8}, ordered \in BOOLEAN, m \in {1, 3}}
         \cup {Obj([weekly_plan |-> Str("see above")]),
               Obj([weekly_plan |-> Null]),
               Obj([shopping_tips |-> Arr(<<>>)])}
    ELSE {Obj([weekly_plan |-> LiveWeek(7, TRUE, generateMealTimings(3, 1))])}

PlanReplies ==
    Failures \cup Junk
    \cup {Content(Stringify(d)) : d \in PlanDocs}
    \cup (IF Wide
          THEN Wrapped({Obj([weekly_plan |-> LiveWeek(7, TRUE, generateMealTimings(3, 1))])})
          ELSE {})

MealDocs ==
    IF Wide
    THEN {ObjOf([name |-> nm, meal_timing |-> tm, calories |-> Num(380)]) :
              nm \in {Absent, Str(""), Str("Tofu Bowl")},
              tm \in {Absent, Str(""), Str("LUNCH")}}
    ELSE {Obj([name |-> Str("Tofu Bowl"), meal_timing |-> Str("LUNCH"),
               calories |-> Num(380)])}

MealReplies ==
    Failures \cup Junk
    \cup {Content(Stringify(d)) : d \in MealDocs}
    \cup (IF Wide
          THEN Wrapped({Obj([name |-> Str("Tofu Bowl"), meal_timing |-> Str("LUNCH"),
                             calories |-> Num(380)])})
          ELSE {})

InsightReplies ==
    Failures \cup Junk
    \cup {Content(<<Word("Eat more fibre"), NL, Word("Drink water")>>)}
    \cup (IF Wide
          THEN {Content(<<Word("1."), SP, Word("Eat more fibre"), NL, SP, NL,
                          Word("2."), NL, Word("3."), NL, Word("4.")>>),
                Content(<<SP, NL, SP>>),
                Content(Stringify(Arr(<<Str("Eat more fibre"), Str("Drink water")>>))),
                Content(Stringify(Arr(<<Str("Eat more fibre"), Num(3), Null,
                                        Obj([tip |-> Str("Drink water")])>>))),
                Content(Stringify(Arr(<<>>))),
                Content(Stringify(Obj([insights |-> Arr(<<Str("Drink water")>>)])))}
          ELSE {})

-----------------------------------------------------------------------------
(* The invocations.                                                        *)

NoCall ==
    [copy |-> "none", op |-> "none", updateText |-> Undefined,
     originalAnalysis |-> Undefined, userProfile |-> Undefined,
     request |-> Undefined, stats |-> Undefined]

\* the Math.random() draws of one getMockAnalysis call
Draws7 == [1..7 -> RandomUnits]
NoDraws == [k \in 1..7 |-> <<0, 2>>]
NoDraw == <<0, 2>>

\* The draws an outcome depends on: those of the mock, when it is the mock
DrawsOf(out, all, none) == IF out.path = "fallback" THEN all ELSE {none}

\* const updated = originalAnalysis: no copy, the writes of getMockUpdate
\* land in the caller's object
originalAfterMockUpdate_aliased(originalAnalysis, updateText) ==
    getMockUpdate(originalAnalysis, updateText)

\* The caller's originalAnalysis after getMockUpdate: updated is a fresh
\* object ({ ...originalAnalysis }) and every write goes to it
originalAfterMockUpdate(originalAnalysis, updateText) == originalAnalysis

\* The caller's argument objects after call c has run to the return out.
\* Only getMockUpdate writes to an object at all; the prompts and the
\* other fallback generators read their argument and build new objects.
InputsAfter(c, out) ==
    IF c.op = "updateMealAnalysis" /\ out.path = "fallback"
    THEN [c EXCEPT !.originalAnalysis =
                       originalAfterMockUpdate(c.originalAnalysis, c.updateText)]
    ELSE c

\* the async function returns before any await: its promise is settled
ReturnsAtOnce(i, c, out) ==
    /\ call' = [call EXCEPT ![i] = c]
    /\ inputs' = [inputs EXCEPT ![i] = InputsAfter(c, out)]
    /\ pc' = [pc EXCEPT ![i] = out.pc]
    /\ path' = [path EXCEPT ![i] = out.path]
    /\ result' = [result EXCEPT ![i] = out.result]
    /\ UNCHANGED <<apiKey, requests, reply>>

\* await openai.chat.completions.create({...}): one request goes out and
\* the invocation is suspended
Awaits(i, c) ==
    /\ call' = [call EXCEPT ![i] = c]
    /\ pc' = [pc EXCEPT ![i] = "await"]
    /\ requests' = [requests EXCEPT ![i] = @ + 1]
    /\ inputs' = [inputs EXCEPT ![i] = c]
    /\ UNCHANGED <<apiKey, reply, path, result>>

\* The result kept in one variable of the module that every invocation
\* writes: the settled call overwrites the result of the others
Settles_sharedResult(i, r, out) ==
    /\ reply' = [reply EXCEPT ![i] = r]
    /\ pc' = [pc EXCEPT ![i] = out.pc]
    /\ path' = [path EXCEPT ![i] = out.path]
    /\ result' = [j \in Slots |-> IF pc[j] = "off" THEN result[j] ELSE out.result]
    /\ inputs' = [inputs EXCEPT ![i] = InputsAfter(call[i], out)]
    /\ UNCHANGED <<apiKey, call, requests>>

\* the awaited promise settles as r and the function runs to its return
Settles(i, r, out) ==
    /\ reply' = [reply EXCEPT ![i] = r]
    /\ pc' = [pc EXCEPT ![i] = out.pc]
    /\ path' = [path EXCEPT ![i] = out.path]
    /\ result' = [result EXCEPT ![i] = out.result]
    /\ inputs' = [inputs EXCEPT ![i] = InputsAfter(call[i], out)]
    /\ UNCHANGED <<apiKey, call, requests>>

Suspended(i, copy, op) ==
    pc[i] = "await" /\ call[i].copy = copy /\ call[i].op = op

analyzeMealImage(i) ==
    \/ /\ pc[i] = "idle"
       /\ \E updateText \in UpdateTexts :
            LET c == [NoCall EXCEPT !.copy = "server", !.op = "analyzeMealImage",
                                    !.updateText = updateText]
            IN IF KeyNotConfigured(apiKey)
               THEN \E rnd \in Draws7 :
                       ReturnsAtOnce(i, c, Returned("fallback",
                                                    getMockAnalysis(updateText, rnd)))
               ELSE Awaits(i, c)
    \/ /\ Suspended(i, "server", "analyzeMealImage")
       /\ \E r \in EstimateReplies :
            \E rnd \in DrawsOf(analyzeMealImage_settled(call[i].updateText, r, NoDraws),
                               Draws7, NoDraws) :
                Settles(i, r, analyzeMealImage_settled(call[i].updateText, r, rnd))

\* generateMealPlan with a retry: a call that is rejected is made once more
generateMealPlan_retry(i) ==
    \/ /\ pc[i] = "idle"
       /\ \E userProfile \in Profiles :
            LET c == [NoCall EXCEPT !.copy = "server", !.op = "generateMealPlan",
                                    !.userProfile = userProfile]
            IN IF KeyNotConfigured(apiKey) \/ MealPlanPromptThrows(userProfile)
               THEN ReturnsAtOnce(i, c, Returned("fallback",
                                                 generateFallbackMealPlan(userProfile)))
               ELSE Awaits(i, c)
    \/ /\ Suspended(i, "server", "generateMealPlan")
       /\ \E r \in PlanReplies :
            IF r.how = "rejected" /\ requests[i] < 2
            THEN Awaits(i, call[i])
            ELSE Settles(i, r, generateMealPlan_settled(call[i].userProfile, r))

generateMealPlan(i) ==
    \/ /\ pc[i] = "idle"
       /\ \E userProfile \in Profiles :
            LET c == [NoCall EXCEPT !.copy = "server", !.op = "generateMealPlan",
                                    !.userProfile = userProfile]
            IN IF KeyNotConfigured(apiKey) \/ MealPlanPromptThrows(userProfile)
               THEN ReturnsAtOnce(i, c, Returned("fallback",
                                                 generateFallbackMealPlan(userProfile)))
               ELSE Awaits(i, c)
    \/ /\ Suspended(i, "server", "generateMealPlan")
       /\ \E r \in PlanReplies :
            Settles(i, r, generateMealPlan_settled(call[i].userProfile, r))

generateReplacementMeal(i) ==
    \/ /\ pc[i] = "idle"
       /\ \E request \in Requests :
            LET c == [NoCall EXCEPT !.copy = "server", !.op = "generateReplacementMeal",
                                    !.request = request]
            IN IF KeyNotConfigured(apiKey) \/ ReplacementPromptThrows(request)
               THEN ReturnsAtOnce(i, c, Returned("fallback",
                                                 generateFallbackReplacementMeal(request)))
               ELSE Awaits(i, c)
    \/ /\ Suspended(i, "server", "generateReplacementMeal")
       /\ \E r \in MealReplies :
            Settles(i, r, generateReplacementMeal_settled(call[i].request, r))

generateNutritionInsights(i) ==
    \/ /\ pc[i] = "idle"
       /\ \E stats \in StatsValues :
            LET c == [NoCall EXCEPT !.copy = "server", !.op = "generateNutritionInsights",
                                    !.stats = stats]
            IN IF KeyNotConfigured(apiKey)
               THEN ReturnsAtOnce(i, c, Returned("fallback", Arr(<<>>)))
               ELSE Awaits(i, c)
    \/ /\ Suspended(i, "server", "generateNutritionInsights")
       /\ \E r \in InsightReplies :
            Settles(i, r, generateNutritionInsights_settled(r))

README_analyzeMealImage(i) ==
    \/ /\ pc[i] = "idle"
       /\ \E updateText \in UpdateTexts :
            LET c == [NoCall EXCEPT !.copy = "README", !.op = "analyzeMealImage",
                                    !.updateText = updateText]
            IN IF README_KeyNotConfigured(apiKey)
               THEN \E u \in RandomUnits :
                       ReturnsAtOnce(i, c, Returned("fallback",
                                                    README_getMockAnalysis(updateText, u)))
               ELSE Awaits(i, c)
    \/ /\ Suspended(i, "README", "analyzeMealImage")
       /\ \E r \in EstimateReplies :
            \E u \in DrawsOf(README_analyzeMealImage_settled(call[i].updateText, r, NoDraw),
                             RandomUnits, NoDraw) :
                Settles(i, r, README_analyzeMealImage_settled(call[i].updateText, r, u))

updateMealAnalysis(i) ==
    \/ /\ pc[i] = "idle"
       /\ \E originalAnalysis \in Originals, updateText \in UpdateStrings :
            LET c == [NoCall EXCEPT !.copy = "README", !.op = "updateMealAnalysis",
                                    !.originalAnalysis = originalAnalysis,
                                    !.updateText = updateText]
            IN IF README_KeyNotConfigured(apiKey)
               THEN ReturnsAtOnce(i, c, Returned("fallback",
                                       getMockUpdate(originalAnalysis, updateText)))
               ELSE Awaits(i, c)
    \/ /\ Suspended(i, "README", "updateMealAnalysis")
       /\ \E r \in EstimateReplies :
            Settles(i, r, updateMealAnalysis_settled(call[i].originalAnalysis,
                                                     call[i].updateText, r))

README_generateMealPlan(i) ==
    \/ /\ pc[i] = "idle"
       /\ \E userProfile \in Profiles :
            LET c == [NoCall EXCEPT !.copy = "README", !.op = "generateMealPlan",
                                    !.userProfile = userProfile]
            IN IF README_KeyNotConfigured(apiKey) \/ MealPlanPromptThrows(userProfile)
               THEN ReturnsAtOnce(i, c, Returned("fallback",
                                                 generateFallbackMealPlan(userProfile)))
               ELSE Awaits(i, c)
    \/ /\ Suspended(i, "README", "generateMealPlan")
       /\ \E r \in PlanReplies :
            Settles(i, r, README_generateMealPlan_settled(call[i].userProfile, r))

README_generateReplacementMeal(i) ==
    \/ /\ pc[i] = "idle"
       /\ \E request \in Requests :
            LET c == [NoCall EXCEPT !.copy = "README", !.op = "generateReplacementMeal",
                                    !.request = request]
            IN IF README_KeyNotConfigured(apiKey) \/ ReplacementPromptThrows(request)
               THEN ReturnsAtOnce(i, c, Returned("fallback",
                                                 generateFallbackReplacementMeal(request)))
               ELSE Awaits(i, c)
    \/ /\ Suspended(i, "README", "generateReplacementMeal")
       /\ \E r \in MealReplies :
            Settles(i, r, README_generateReplacementMeal_settled(call[i].request, r))

\* stats.averageCaloriesDaily throws a TypeError when stats is null
README_generateNutritionInsights(i) ==
    \/ /\ pc[i] = "idle"
       /\ \E stats \in StatsValues :
            LET c == [NoCall EXCEPT !.copy = "README", !.op = "generateNutritionInsights",
                                    !.stats = stats]
            IN IF README_KeyNotConfigured(apiKey) \/ ReadThrows(stats)
               THEN ReturnsAtOnce(i, c, Returned("fallback", Arr(<<>>)))
               ELSE Awaits(i, c)
    \/ /\ Suspended(i, "README", "generateNutritionInsights")
       /\ \E r \in InsightReplies :
            Settles(i, r, README_generateNutritionInsights_settled(r))

\* the caller takes the settled promise; the invocation is over
Return(i) ==
    /\ pc[i] \in {"resolved", "rejected"}
    /\ pc' = [pc EXCEPT ![i] = "idle"]
    /\ call' = [call EXCEPT ![i] = NoCall]
    /\ requests' = [requests EXCEPT ![i] = 0]
    /\ reply' = [reply EXCEPT ![i] = Pending]
    /\ path' = [path EXCEPT ![i] = "none"]
    /\ result' = [result EXCEPT ![i] = Undefined]
    /\ inputs' = [inputs EXCEPT ![i] = NoCall]
    /\ UNCHANGED apiKey

Start(used) ==
    /\ pc = [i \in Slots |-> IF i \in used THEN "idle" ELSE "off"]
    /\ apiKey \in Keys
    /\ call = [i \in Slots |-> NoCall]
    /\ requests = [i \in Slots |-> 0]
    /\ reply = [i \in Slots |-> Pending]
    /\ path = [i \in Slots |-> "none"]
    /\ result = [i \in Slots |-> Undefined]
    /\ inputs = [i \in Slots |-> NoCall]

Init == Start({1})

InitPair == Start(Slots)

Next ==
    \E i \in Slots :
        \/ analyzeMealImage(i)
        \/ generateMealPlan(i)
        \/ generateReplacementMeal(i)
        \/ generateNutritionInsights(i)
        \/ README_analyzeMealImage(i)
        \/ updateMealAnalysis(i)
        \/ README_generateMealPlan(i)
        \/ README_generateReplacementMeal(i)
        \/ README_generateNutritionInsights(i)
        \/ Return(i)

Spec == Init /\ [][Next]_vars

SpecPair == InitPair /\ [][Next]_vars

-----------------------------------------------------------------------------
(* The claims.                                                             *)

EstimateOps == {"analyzeMealImage", "updateMealAnalysis"}
NoCredential == ~Truthy(apiKey)

\* the call failed: it was rejected, or it brought no content
FailedCall(r) == r.how = "rejected" \/ (r.how = "fulfilled" /\ ContentMissing(r))

\* the fallback estimates analyzeMealImage may return for a call
MockAnalyses(c) ==
    IF c.copy = "server" THEN {getMockAnalysis(c.updateText, rnd) : rnd \in Draws7}
    ELSE {README_getMockAnalysis(c.updateText, u) : u \in RandomUnits}

C2_NoCredentialNoRequest ==
    \A i \in Slots :
        (NoCredential /\ call[i].op \in {"analyzeMealImage", "generateMealPlan",
                                         "generateReplacementMeal"}) =>
            /\ requests[i] = 0
            /\ pc[i] = "resolved"
            /\ path[i] = "fallback"
            /\ CASE call[i].op = "analyzeMealImage" -> result[i] \in MockAnalyses(call[i])
                 [] call[i].op = "generateMealPlan" ->
                      result[i] = generateFallbackMealPlan(call[i].userProfile)
                 [] OTHER -> result[i] = generateFallbackReplacementMeal(call[i].request)

C2_Witness ==
    \E i \in Slots :
        /\ NoCredential /\ pc[i] = "resolved" /\ requests[i] = 0
        /\ call[i].copy = "server" /\ call[i].op = "generateReplacementMeal"

\* C3: with the placeholder key, every operation of every copy takes its
\* fallback branch and makes no request, as with no key.
C3_PlaceholderNoRequest ==
    \A i \in Slots :
        (apiKey = Str(PLACEHOLDER_KEY) /\ call[i].op # "none") =>
            requests[i] = 0 /\ pc[i] = "resolved" /\ path[i] = "fallback"

\* the weekly_plan of a plan has 7 days, day_index 0 to 6 in order
SevenDaysInOrder(plan) ==
    LET week == Get(plan, "weekly_plan")
    IN /\ IsArray(week)
       /\ Len(week.a) = 7
       /\ \A d \in 1..Len(week.a) : Get(week.a[d], "day_index") = Num(d - 1)

\* C4: every plan generateMealPlan returns has a weekly_plan of exactly 7
\* days with day_index 0, 1, ..., 6 in that order.
C4_SevenDays ==
    \A i \in Slots :
        (pc[i] = "resolved" /\ call[i].op = "generateMealPlan") =>
            SevenDaysInOrder(result[i])

\* C5: every day of a plan generateMealPlan returns, live or fallback, has
\* exactly meals_per_day + snacks_per_day meals.
C5_MealsPerDay ==
    \A i \in Slots :
        (pc[i] = "resolved" /\ call[i].op = "generateMealPlan") =>
            LET week == Get(result[i], "weekly_plan")
            IN \A d \in 1..Len(week.a) :
                  /\ IsArray(Get(week.a[d], "meals"))
                  /\ Len(Get(week.a[d], "meals").a) =
                        call[i].userProfile.meals_per_day
                        + call[i].userProfile.snacks_per_day

\* the reply to generateMealPlan is malformed: no JSON, or JSON with no
\* weekly_plan array, or a weekly_plan that has not 7 days
MalformedPlanReply(r) ==
    /\ r.how = "fulfilled" /\ ~ContentMissing(r)
    /\ LET parsed == JSON_parse(jsonString(r.toks))
       IN \/ ~parsed.ok
          \/ ~IsArray(Get(parsed.v, "weekly_plan"))
          \/ Len(Get(parsed.v, "weekly_plan").a) # 7

\* C6: when the live reply to generateMealPlan is malformed, the plan
\* returned is the fallback generator's plan for the profile, field for
\* field.
C6_MalformedGivesFallback ==
    \A i \in Slots :
        (pc[i] = "resolved" /\ call[i].op = "generateMealPlan"
         /\ MalformedPlanReply(reply[i])) =>
            result[i] = generateFallbackMealPlan(call[i].userProfile)

\* C7: in every estimate analyzeMealImage or updateMealAnalysis returns,
\* calories, protein, carbs and fat are numbers >= 0, and so is each of
\* fiber, sugar and sodium that is present.
C7_NutrientsNonNegative ==
    \A i \in Slots :
        (pc[i] = "resolved" /\ call[i].op \in EstimateOps) =>
            /\ \A k \in {"calories", "protein", "carbs", "fat"} :
                   GeZero(Get(result[i], k))
            /\ \A k \in {"fiber", "sugar", "sodium"} :
                   Get(result[i], k) # Undefined => GeZero(Get(result[i], k))

\* C8: in every estimate analyzeMealImage returns, and every one
\* updateMealAnalysis returns for an original whose confidence is within
\* [0, 100], confidence is a number within [0, 100].
C8_ConfidenceInRange ==
    \A i \in Slots :
        (/\ pc[i] = "resolved"
         /\ call[i].op \in EstimateOps
         /\ call[i].op = "updateMealAnalysis" =>
                /\ GeZero(Get(call[i].originalAnalysis, "confidence"))
                /\ Get(call[i].originalAnalysis, "confidence").n <= 100) =>
            /\ GeZero(Get(result[i], "confidence"))
            /\ Get(result[i], "confidence").n <= 100

\* a live estimate whose payload gave a confidence of 150, clamped to 100
C8_Witness ==
    \E i \in Slots :
        /\ pc[i] = "resolved" /\ path[i] = "live" /\ call[i].op = "analyzeMealImage"
        /\ Get(JSON_parse(jsonString(reply[i].toks)).v, "confidence") = Num(150)
        /\ Get(result[i], "confidence") = Num(100)

SameFallbackCalls(i, j) ==
    /\ i # j
    /\ pc[i] = "resolved" /\ pc[j] = "resolved"
    /\ path[i] = "fallback" /\ path[j] = "fallback"
    /\ call[i] = call[j]

FixedMockFields(copy) ==
    IF copy = "server"
    THEN {"name", "description", "confidence", "ingredients", "servingSize",
          "cookingMethod", "healthNotes"}
    ELSE {"confidence", "servingSize"}

-----------------------------------------------------------------------------
(* updateMealAnalysis on its fallback: getMockUpdate.                      *)

Macros == {"calories", "protein", "carbs", "fat"}
Intensifiers == {more, extra, additional}
Reducers == {less, smaller}

\* the text holds one of the words, in any case, anywhere
HasToken(text, words) == \E w \in words : includes(toLowerCase(text.cs), w)

\* invocation i is an updateMealAnalysis that returned getMockUpdate's result
UpdateFallback(i) ==
    pc[i] = "resolved" /\ call[i].op = "updateMealAnalysis" /\ path[i] = "fallback"

C12_ReducerScales ==
    \A i \in Slots :
        (/\ UpdateFallback(i)
         /\ HasToken(call[i].updateText, Reducers)
         /\ ~HasToken(call[i].updateText, Intensifiers)) =>
            \A k \in Macros :
                LET r == Get(result[i], k)
                    x == Get(call[i].originalAnalysis, k)
                IN /\ r = RoundTimes07(x)
                   /\ 10 * r.n - 7 * x.n \in -5..5

\* 'smaller' with no key: 500 became 350 and 45 became 31
C12_Witness ==
    \E i \in Slots :
        /\ UpdateFallback(i) /\ requests[i] = 0
        /\ call[i].updateText = Chars(smaller)
        /\ Get(result[i], "calories") = Num(350)
        /\ Get(result[i], "protein") = Num(31)

\* the text of an optional string field: nothing when the field is unset
TextOf(v) == IF v.t = "string" THEN v.s ELSE ""

\* C13: on the fallback, when updateText holds neither an intensifier nor a
\* reducer, calories, protein, carbs and fat are the original's, and the
\* description is the original's description with the updateText appended.
C13_GenericKeepsMacros ==
    \A i \in Slots :
        (/\ UpdateFallback(i)
         /\ ~HasToken(call[i].updateText, Reducers)
         /\ ~HasToken(call[i].updateText, Intensifiers)) =>
            LET original == call[i].originalAnalysis
            IN /\ \A k \in Macros : Get(result[i], k) = Get(original, k)
               /\ Get(result[i], "description") =
                    Str(TextOf(Get(original, "description"))
                        \o " - Additional info: " \o call[i].updateText.s)

\* the JSON value the code parses out of a reply
Payload(r) == JSON_parse(jsonString(r.toks)).v

NumericFields == {"calories", "protein", "carbs", "fat", "fiber", "sugar", "sodium",
                  "confidence"}

\* the payload leaves field k out, or holds no number >= 0 for a numeric k
OmitsOrInvalid(payload, k) ==
    \/ Get(payload, k) = Undefined
    \/ k \in NumericFields /\ ~GeZero(Get(payload, k))

\* C14: on the live path of updateMealAnalysis, every field of the original
\* that the payload omits (or holds an invalid value for) has the original's
\* value in the result, the fields outside the prompted schema (items,
\* healthScore, recommendations) included.
C14_LiveCarriesOriginal ==
    \A i \in Slots :
        (pc[i] = "resolved" /\ call[i].op = "updateMealAnalysis" /\ path[i] = "live") =>
            \A k \in DOMAIN call[i].originalAnalysis.o :
                OmitsOrInvalid(Payload(reply[i]), k) =>
                    Get(result[i], k) = Get(call[i].originalAnalysis, k)

-----------------------------------------------------------------------------
(* The timing tags and the fallback generators.                            *)

MealTags == <<"BREAKFAST", "LUNCH", "DINNER">>
SnackTags == <<"MORNING_SNACK", "AFTERNOON_SNACK", "EVENING_SNACK">>

\* the first min(n, 3) of three tags
FirstTags(tags, n) == SubSeq(tags, 1, IF n < 3 THEN n ELSE 3)

\* the tags wanted for a profile
WantedTags(userProfile) ==
    FirstTags(MealTags, userProfile.meals_per_day)
    \o FirstTags(SnackTags, userProfile.snacks_per_day)

\* the meal_timing tags of one day of a plan, in order
TagsOfDay(day) ==
    [m \in 1..Len(Get(day, "meals").a) |-> Get(Get(day, "meals").a[m], "meal_timing").s]

\* invocation i is a generateMealPlan that returned the fallback plan
PlanFallback(i) ==
    pc[i] = "resolved" /\ call[i].op = "generateMealPlan" /\ path[i] = "fallback"

\* C15: for every profile a generateMealPlan is called with, the timing
\* tags derived are the first min(meals_per_day, 3) of BREAKFAST, LUNCH,
\* DINNER, then the first min(snacks_per_day, 3) of MORNING_SNACK,
\* AFTERNOON_SNACK, EVENING_SNACK, with no tag twice (for 3 and 1:
\* BREAKFAST, LUNCH, DINNER, MORNING_SNACK), and they are the tags of every
\* day of the fallback plan.
C15_TimingTags ==
    \A i \in Slots :
        call[i].op = "generateMealPlan" =>
            LET userProfile == call[i].userProfile
                timings == generateMealTimings(userProfile.meals_per_day,
                                               userProfile.snacks_per_day)
            IN /\ timings = WantedTags(userProfile)
               /\ \A a, b \in 1..Len(timings) : timings[a] = timings[b] => a = b
               /\ (userProfile.meals_per_day = 3 /\ userProfile.snacks_per_day = 1) =>
                     timings = <<"BREAKFAST", "LUNCH", "DINNER", "MORNING_SNACK">>
               /\ PlanFallback(i) =>
                     \A d \in 1..7 :
                         TagsOfDay(Get(result[i], "weekly_plan").a[d]) = timings

\* fallback plans for 3 meals and 1 snack, and for more than 3 of each
C15_Witness ==
    \E i \in Slots :
        /\ PlanFallback(i)
        /\ call[i].userProfile.meals_per_day >= 3
        /\ call[i].userProfile.snacks_per_day \in {1, MaxSnacks}
        /\ Len(TagsOfDay(Get(result[i], "weekly_plan").a[7])) \in {4, 6}

\* invocation i is a generateReplacementMeal whose call brought a reply
\* that parses
ReplacementParsed(i) ==
    /\ pc[i] = "resolved" /\ call[i].op = "generateReplacementMeal"
    /\ reply[i].how = "fulfilled" /\ ~ContentMissing(reply[i])
    /\ JSON_parse(jsonString(reply[i].toks)).ok

\* the payload has a non-empty name and a non-empty meal_timing
NamedAndTimed(payload) ==
    /\ ~ReadThrows(payload)
    /\ Truthy(Get(payload, "name"))
    /\ Truthy(Get(payload, "meal_timing"))

\* C16: on the live path of generateReplacementMeal the parsed payload is
\* returned only when it has a non-empty name and a non-empty meal_timing;
\* for a payload missing either, the result is the fallback replacement
\* meal for the request.
C16_ReplacementValidated ==
    \A i \in Slots :
        ReplacementParsed(i) =>
            IF NamedAndTimed(Payload(reply[i]))
            THEN path[i] = "live" /\ result[i] = Payload(reply[i])
            ELSE /\ path[i] = "fallback"
                 /\ result[i] = generateFallbackReplacementMeal(call[i].request)

\* invocation i is a generateReplacementMeal that returned the fallback meal
ReplacementFallback(i) ==
    pc[i] = "resolved" /\ call[i].op = "generateReplacementMeal" /\ path[i] = "fallback"

REPLACEMENT_REASON == "Generated as a safe alternative when AI generation fails"

\* C17: the fallback replacement meal has the current meal's meal_timing
\* and dietary_category, the name 'Alternative ' and the current meal's
\* name, the fixed replacement_reason and, for a current meal with no macro
\* set, calories 400, protein_g 25, carbs_g 35, fats_g 15.
C17_FallbackReplacement ==
    \A i \in Slots :
        ReplacementFallback(i) =>
            LET current_meal == call[i].request.current_meal
                unset == \A k \in {"calories", "protein_g", "carbs_g", "fats_g"} :
                            current_meal[k] = Undefined
            IN /\ Get(result[i], "meal_timing") = Str(current_meal.meal_timing)
               /\ Get(result[i], "dietary_category") = Str(current_meal.dietary_category)
               /\ Get(result[i], "name") = Str("Alternative " \o current_meal.name)
               /\ Get(result[i], "replacement_reason") = Str(REPLACEMENT_REASON)
               /\ unset => /\ Get(result[i], "calories") = Num(400)
                           /\ Get(result[i], "protein_g") = Num(25)
                           /\ Get(result[i], "carbs_g") = Num(35)
                           /\ Get(result[i], "fats_g") = Num(15)

\* a current meal with no macros, replaced by the fallback after a reply
\* that did not parse
C17_Witness ==
    \E i \in Slots :
        /\ ReplacementFallback(i) /\ requests[i] = 1
        /\ call[i].request.current_meal.calories = Undefined
        /\ call[i].request.current_meal.protein_g = Undefined
        /\ Get(result[i], "calories") = Num(400)
        /\ Get(result[i], "name") = Str("Alternative Lentil Soup")

-----------------------------------------------------------------------------
(* generateNutritionInsights.                                              *)

Insights(i) == call[i].op = "generateNutritionInsights"

\* the reply is no list of insights for the copy that reads it: for the
\* server copy, which takes the lines of any text, a text with no line that
\* is not blank; for the README copy, a text that is no JSON array
NoInsightList(copy, r) ==
    /\ r.how = "fulfilled" /\ ~ContentMissing(r)
    /\ IF copy = "server"
       THEN filterLines(split(r.toks)) = <<>>
       ELSE ~JSON_parse(r.toks).ok \/ ~IsArray(JSON_parse(r.toks).v)

\* C18: generateNutritionInsights never rejects; with no API key it makes
\* no request and returns the empty list; it returns the empty list when
\* its call is rejected, when the reply is empty, and when the reply holds
\* no list of insights.
C18_InsightsEmptyOnFailure ==
    \A i \in Slots :
        Insights(i) =>
            /\ pc[i] # "rejected"
            /\ NoCredential =>
                  requests[i] = 0 /\ pc[i] = "resolved" /\ result[i] = Arr(<<>>)
            /\ (/\ pc[i] = "resolved" /\ requests[i] = 1
                /\ FailedCall(reply[i]) \/ NoInsightList(call[i].copy, reply[i])) =>
                  result[i] = Arr(<<>>)

\* a rejected call, and a reply that is JSON but no array, gave the empty
\* list
C18_Witness ==
    \E i \in Slots :
        /\ Insights(i) /\ pc[i] = "resolved" /\ requests[i] = 1
        /\ call[i].copy = "README"
        /\ JSON_parse(reply[i].toks).ok /\ JSON_parse(reply[i].toks).v.t = "object"
        /\ result[i] = Arr(<<>>)

\* the macro fields of a planned meal and the daily targets they come from
MealMacroTargets ==
    {<<"calories", "target_calories_daily", "avg_daily_calories">>,
     <<"protein_g", "target_protein_daily", "avg_daily_protein">>,
     <<"carbs_g", "target_carbs_daily", "avg_daily_carbs">>,
     <<"fats_g", "target_fats_daily", "avg_daily_fats">>}

\* r is t / n rounded to the nearest integer, a half rounded up
IsRounded(r, t, n) == 2 * t + n - 2 * n * r \in 0..(2 * n - 1)

\* C19: in the fallback plan every meal of every day has calories,
\* protein_g, carbs_g and fats_g equal to the matching daily target divided
\* by meals_per_day + snacks_per_day and rounded, and
\* weekly_nutrition_summary holds the four daily targets with
\* goal_adherence_percentage 80.
C19_FallbackPlanMacros ==
    \A i \in Slots :
        PlanFallback(i) =>
            LET userProfile == call[i].userProfile
                n == userProfile.meals_per_day + userProfile.snacks_per_day
                week == Get(result[i], "weekly_plan").a
                summary == Get(result[i], "weekly_nutrition_summary")
            IN /\ \A d \in 1..Len(week) :
                    \A m \in 1..Len(Get(week[d], "meals").a) :
                        \A f \in MealMacroTargets :
                            LET r == Get(Get(week[d], "meals").a[m], f[1])
                            IN IsNumber(r) /\ IsRounded(r.n, userProfile[f[2]], n)
               /\ \A f \in MealMacroTargets :
                    Get(summary, f[3]) = Num(userProfile[f[2]])
               /\ Get(summary, "goal_adherence_percentage") = Num(80)

\* 1850 kcal over 3 meals and 1 snack: 462.5 a meal, rounded to 463
C19_Witness ==
    \E i \in Slots :
        /\ PlanFallback(i)
        /\ call[i].userProfile.target_calories_daily = 1850
        /\ call[i].userProfile.meals_per_day = 3
        /\ call[i].userProfile.snacks_per_day = 1
        /\ Get(Get(Get(result[i], "weekly_plan").a[7], "meals").a[4], "calories") = Num(463)

-----------------------------------------------------------------------------
(* analyzeMealImage on its live path.                                      *)

\* invocation i is an analyzeMealImage whose reply, as the code extracts
\* it, parses to a JSON object
AnalyzeParsedObject(i) ==
    /\ pc[i] = "resolved" /\ call[i].op = "analyzeMealImage"
    /\ reply[i].how = "fulfilled" /\ ~ContentMissing(reply[i])
    /\ JSON_parse(jsonString(reply[i].toks)).ok
    /\ Payload(reply[i]).t = "object"

\* The defaults of the live path, for a reply whose extracted text (first
\* '{' to last '}') parses to a JSON object: the result is built from it
\* and not by the fallback; a missing name is 'Unknown Food', a missing or
\* non-numeric calories, protein, carbs or fat is 0, ingredients that are
\* no array are the empty list, a missing servingSize is '1 serving', a
\* missing cookingMethod is 'Unknown'.
LiveDefaultsOfExtracted ==
    \A i \in Slots :
        AnalyzeParsedObject(i) =>
            LET parsed == Payload(reply[i])
            IN /\ path[i] = "live"
               /\ Get(parsed, "name") = Undefined =>
                     Get(result[i], "name") = Str("Unknown Food")
               /\ \A k \in Macros :
                     ToNumber(Get(parsed, k)) = NaN => Get(result[i], k) = Num(0)
               /\ ~IsArray(Get(parsed, "ingredients")) =>
                     Get(result[i], "ingredients") = Arr(<<>>)
               /\ Get(parsed, "servingSize") = Undefined =>
                     Get(result[i], "servingSize") = Str("1 serving")
               /\ Get(parsed, "cookingMethod") = Undefined =>
                     Get(result[i], "cookingMethod") = Str("Unknown")

\* a payload with no name and 'abc' for calories gave a live 'Unknown Food'
\* of 0 kcal
LiveDefaultsReached ==
    \E i \in Slots :
        /\ AnalyzeParsedObject(i) /\ path[i] = "live"
        /\ Get(Payload(reply[i]), "name") = Undefined
        /\ Get(Payload(reply[i]), "calories") = Str("abc")
        /\ Get(result[i], "name") = Str("Unknown Food")
        /\ Get(result[i], "calories") = Num(0)

\* the JSON objects that parse out of some span of the text
ObjectsIn(toks) ==
    {JSON_parse(SubSeq(toks, a, b)).v :
        <<a, b>> \in {ab \in (1..Len(toks)) \X (1..Len(toks)) :
                        /\ ab[1] <= ab[2]
                        /\ JSON_parse(SubSeq(toks, ab[1], ab[2])).ok
                        /\ JSON_parse(SubSeq(toks, ab[1], ab[2])).v.t = "object"}}

\* C20: whenever the reply to analyzeMealImage contains a parseable JSON
\* object, the result is built from that object and not by the fallback,
\* whichever fields are missing or invalid, with the defaults for them.
C20_ObjectInReplyGivesLive ==
    \A i \in Slots :
        (/\ pc[i] = "resolved" /\ call[i].op = "analyzeMealImage"
         /\ reply[i].how = "fulfilled" /\ ~ContentMissing(reply[i])
         /\ ObjectsIn(reply[i].toks) # {}) =>
            /\ path[i] = "live"
            /\ \E parsed \in ObjectsIn(reply[i].toks) :
                   result[i] = analysisResult(parsed)

-----------------------------------------------------------------------------
(* The extraction of JSON from the reply.                                  *)

\* the operations that take their JSON out of the reply with
\* content.match(/\{[\s\S]*\}/)
ExtractingOps == {"analyzeMealImage", "updateMealAnalysis", "generateMealPlan",
                  "generateReplacementMeal"}

\* C21: for every JSON object serialized and wrapped in prose before and
\* after it, prose holding '{' or '}' included, the value extracted and
\* parsed is that object, and analyzeMealImage does not fall back.
C21_ExtractionRoundTrip ==
    \A i \in Slots :
        (/\ pc[i] = "resolved" /\ call[i].op \in ExtractingOps
         /\ reply[i].how = "fulfilled" /\ ~ContentMissing(reply[i])
         /\ ObjectsIn(reply[i].toks) # {}) =>
            /\ JSON_parse(jsonString(reply[i].toks)).ok
            /\ Payload(reply[i]) \in ObjectsIn(reply[i].toks)
            /\ call[i].op = "analyzeMealImage" => path[i] = "live"

\* C22: in every plan generateMealPlan returns, live or fallback, the
\* meal_timing tags of each day's meals are, in order, the tag list derived
\* from the profile's meals_per_day and snacks_per_day.
C22_SameSkeleton ==
    \A i \in Slots :
        (pc[i] = "resolved" /\ call[i].op = "generateMealPlan") =>
            LET week == Get(result[i], "weekly_plan").a
                timings == generateMealTimings(call[i].userProfile.meals_per_day,
                                               call[i].userProfile.snacks_per_day)
            IN \A d \in 1..Len(week) : TagsOfDay(week[d]) = timings

-----------------------------------------------------------------------------
(* The arguments and the state of the component.                           *)

AtOnce(c, key) ==
    LET noKey == IF c.copy = "server" THEN KeyNotConfigured(key)
                 ELSE README_KeyNotConfigured(key)
    IN CASE c.op = "generateMealPlan" -> noKey \/ MealPlanPromptThrows(c.userProfile)
         [] c.op = "generateReplacementMeal" -> noKey \/ ReplacementPromptThrows(c.request)
         [] c.op = "generateNutritionInsights" ->
              noKey \/ (c.copy = "README" /\ ReadThrows(c.stats))
         [] OTHER -> noKey

\* the seven draws behind estimate v of call c, read off its drawn fields:
\* a field at the value of the high draw was drawn high, any other low
DrawnFields == <<"calories", "protein", "carbs", "fat", "fiber", "sugar", "sodium">>
DrawsBehind(c, v) ==
    LET high == getMockAnalysis(c.updateText, [k \in 1..7 |-> <<1, 2>>])
    IN [k \in 1..7 |-> IF Get(v, DrawnFields[k]) = Get(high, DrawnFields[k])
                       THEN <<1, 2>> ELSE <<0, 2>>]

\* out is a fallback result of call c
FallbackAlone(c, v) ==
    CASE c.op = "analyzeMealImage" ->
           IF c.copy = "server" THEN v = getMockAnalysis(c.updateText, DrawsBehind(c, v))
           ELSE \E u \in RandomUnits : v = README_getMockAnalysis(c.updateText, u)
      [] c.op = "updateMealAnalysis" -> v = getMockUpdate(c.originalAnalysis, c.updateText)
      [] c.op = "generateMealPlan" -> v = generateFallbackMealPlan(c.userProfile)
      [] c.op = "generateReplacementMeal" -> v = generateFallbackReplacementMeal(c.request)
      [] OTHER -> v = Arr(<<>>)

\* out is an outcome of call c when its request is answered by r
SettledAlone(c, r, out) ==
    CASE c.op = "analyzeMealImage" ->
           IF c.copy = "server"
           THEN out = analyzeMealImage_settled(c.updateText, r, DrawsBehind(c, out.result))
           ELSE \E u \in RandomUnits : out = README_analyzeMealImage_settled(c.updateText, r, u)
      [] c.op = "updateMealAnalysis" ->
           out = updateMealAnalysis_settled(c.originalAnalysis, c.updateText, r)
      [] c.op = "generateMealPlan" ->
           IF c.copy = "server" THEN out = generateMealPlan_settled(c.userProfile, r)
           ELSE out = README_generateMealPlan_settled(c.userProfile, r)
      [] c.op = "generateReplacementMeal" ->
           IF c.copy = "server" THEN out = generateReplacementMeal_settled(c.request, r)
           ELSE out = README_generateReplacementMeal_settled(c.request, r)
      [] OTHER ->
           IF c.copy = "server" THEN out = generateNutritionInsights_settled(r)
           ELSE out = README_generateNutritionInsights_settled(r)

\* out is an outcome call c can have when it runs alone under the key, with
\* r the reply to its request (Pending when it has made none)
RunAlone(c, key, r, out) ==
    IF AtOnce(c, key)
    THEN r = Pending /\ out.pc = "resolved" /\ out.path = "fallback"
         /\ FallbackAlone(c, out.result)
    ELSE r # Pending /\ SettledAlone(c, r, out)

\* all there is of invocation i
Invocation(i) ==
    <<pc[i], call[i], requests[i], reply[i], path[i], result[i], inputs[i]>>

\* an invocation that is not running holds nothing; one that has resolved
\* holds an outcome it can have alone with its arguments, key and reply
OutcomeAsAlone ==
    \A i \in Slots :
        /\ pc[i] \in {"idle", "off"} =>
              /\ call[i] = NoCall /\ result[i] = Undefined /\ reply[i] = Pending
              /\ requests[i] = 0 /\ path[i] = "none" /\ inputs[i] = NoCall
        /\ pc[i] = "resolved" =>
              RunAlone(call[i], apiKey, reply[i],
                       [pc |-> pc[i], path |-> path[i], result |-> result[i]])

\* a step changes one invocation and leaves the other, and the key, as
\* they are
OneInvocationSteps ==
    /\ apiKey' = apiKey
    /\ \A i, j \in Slots :
          (i # j /\ Invocation(i)' # Invocation(i)) => Invocation(j)' = Invocation(j)

-----------------------------------------------------------------------------
(* The elements of the insights, the precedence of the update tokens, the  *)
(* frame of the update fallback, and zero as a set value.                   *)

\* C25: whatever the reply, every element of the list returned by
\* generateNutritionInsights is a string: a reply that parses to an array
\* holding numbers, objects or null, or to a value that is no array, puts
\* no element that is not a string in the result.
C25_InsightsAreStrings ==
    \A i \in Slots :
        (Insights(i) /\ pc[i] = "resolved") =>
            /\ IsArray(result[i])
            /\ \A e \in 1..Len(result[i].a) : result[i].a[e].t = "string"

\* what each branch of the update fallback leaves in the result: the
\* intensifier branch, the reducer branch, the generic branch
AppliedIntensify(original, updateText, updated) ==
    /\ \A k \in Macros : Get(updated, k) = RoundTimes13(Get(original, k))
    /\ Get(updated, "name") = Str(AsString(Get(original, "name")) \o " (Updated)")
    /\ Get(updated, "description") =
          Str(AsString(Get(original, "description"))
              \o " - Updated with: " \o updateText.s)

AppliedReduce(original, updateText, updated) ==
    /\ \A k \in Macros : Get(updated, k) = RoundTimes07(Get(original, k))
    /\ Get(updated, "name") =
          Str(AsString(Get(original, "name")) \o " (Smaller Portion)")
    /\ Get(updated, "description") = Get(original, "description")

AppliedGeneric(original, updateText, updated) ==
    /\ \A k \in Macros : Get(updated, k) = Get(original, k)
    /\ Get(updated, "name") = Str(AsString(Get(original, "name")) \o " (Updated)")
    /\ Get(updated, "description") =
          Str(AsString(Get(original, "description"))
              \o " - Additional info: " \o updateText.s)

BranchesApplied(original, updateText, updated) ==
    (IF AppliedIntensify(original, updateText, updated) THEN {"intensify"} ELSE {})
    \cup (IF AppliedReduce(original, updateText, updated) THEN {"reduce"} ELSE {})
    \cup (IF AppliedGeneric(original, updateText, updated) THEN {"generic"} ELSE {})

\* C26: on the update fallback the intensifier test goes first: when
\* updateText holds both an intensifier ('more', 'extra', 'additional') and
\* a reducer ('less', 'smaller'), the four macros are those of the
\* original times 1.3 and the reducer branch is not applied; and in every
\* call exactly one of the three branches is applied.
C26_IntensifierFirst ==
    \A i \in Slots :
        UpdateFallback(i) =>
            LET applied == BranchesApplied(call[i].originalAnalysis, call[i].updateText,
                                           result[i])
            IN /\ Cardinality(applied) = 1
               /\ (/\ HasToken(call[i].updateText, Intensifiers)
                   /\ HasToken(call[i].updateText, Reducers)) => applied = {"intensify"}

\* 'less' and 'more' in one text: 500 became 650, not 350
C26_Witness ==
    \E i \in Slots :
        /\ UpdateFallback(i)
        /\ HasToken(call[i].updateText, Intensifiers)
        /\ HasToken(call[i].updateText, Reducers)
        /\ Get(call[i].originalAnalysis, "calories") = Num(500)
        /\ Get(result[i], "calories") = Num(650)
        /\ Get(result[i], "name") = Str("Chicken Bowl (Updated)")

\* the fields getMockUpdate may write, and those the claim names as kept
WrittenByMockUpdate == {"calories", "protein", "carbs", "fat", "name", "description"}
KeptByMockUpdate == {"fiber", "sugar", "sodium", "confidence", "ingredients",
                     "servingSize", "cookingMethod", "healthNotes"}

\* C27: in every branch of the update fallback the result's fiber, sugar,
\* sodium, confidence, ingredients, servingSize, cookingMethod and
\* healthNotes are the original's, as is every other field but calories,
\* protein, carbs, fat, name and description.
C27_FallbackFrame ==
    \A i \in Slots :
        UpdateFallback(i) =>
            LET original == call[i].originalAnalysis
                fields == (KeptByMockUpdate \cup DOMAIN original.o \cup DOMAIN result[i].o)
                              \ WrittenByMockUpdate
            IN \A k \in fields : Get(result[i], k) = Get(original, k)

\* the reducer branch on the meal that has all the fields: the calories
\* changed, the sodium and the ingredients did not
C27_Witness ==
    \E i \in Slots :
        /\ UpdateFallback(i)
        /\ HasToken(call[i].updateText, Reducers)
        /\ Get(result[i], "calories") = Num(350)
        /\ Get(result[i], "sodium") = Num(700)
        /\ Get(result[i], "ingredients") # Undefined
        /\ Get(result[i], "ingredients") = Get(call[i].originalAnalysis, "ingredients")

\* C28: in the fallback replacement meal the defaults 400, 25, 35 and 15
\* stand in for unset macros only: whenever the current meal has calories,
\* protein_g, carbs_g or fats_g set to a number, 0 included, the result
\* carries that number for the field.
C28_SetMacrosCarried ==
    \A i \in Slots :
        ReplacementFallback(i) =>
            \A k \in {"calories", "protein_g", "carbs_g", "fats_g"} :
                LET set == call[i].request.current_meal[k]
                IN set.t = "number" => Get(result[i], k) = set

\* v is a number the payload may validly give for numeric field k: a number
\* >= 0, and for confidence one that is at most 100
ValidFor(k, v) == v.t = "number" /\ v.n >= 0 /\ (k = "confidence" => v.n <= 100)

\* C29: on the live path of updateMealAnalysis the original's value stands
\* in only for a numeric field the payload omits or holds no number for:
\* whenever the payload gives calories, protein, carbs, fat, fiber, sugar,
\* sodium or confidence as a valid number >= 0, 0 included, the result
\* carries the payload's number for the field.
C29_PayloadNumberCarried ==
    \A i \in Slots :
        (pc[i] = "resolved" /\ call[i].op = "updateMealAnalysis" /\ path[i] = "live") =>
            \A k \in NumericFields :
                LET given == Get(Payload(reply[i]), k)
                IN ValidFor(k, given) => Get(result[i], k) = given

\* the sum of macro f over the meals of a day
RECURSIVE SumOfMeals(_, _)
SumOfMeals(meals, f) ==
    IF meals = <<>> THEN 0
    ELSE Get(Head(meals), f).n + SumOfMeals(Tail(meals), f)

\* C30: in the fallback plan, for a profile with meals_per_day +
\* snacks_per_day = n >= 1, each day's meals add up, in calories, protein_g,
\* carbs_g and fats_g, to the daily target that weekly_nutrition_summary
\* reports, within the rounding error n / 2.
C30_DayAddsUpToTarget ==
    \A i \in Slots :
        PlanFallback(i) =>
            LET userProfile == call[i].userProfile
                n == userProfile.meals_per_day + userProfile.snacks_per_day
                week == Get(result[i], "weekly_plan").a
            IN n >= 1 =>
                 \A d \in 1..Len(week) :
                     \A f \in MealMacroTargets :
                         LET sum == SumOfMeals(Get(week[d], "meals").a, f[1])
                         IN 2 * (sum - userProfile[f[2]]) \in (-n)..n

=============================================================================
